---- MODULE Spec2Model ----
(***************************************************************************)
(* Content validation subsystem of the portfolio site:                     *)
(*   - src/src/utils/contentHelpers.ts : validateContentFile,              *)
(*     validateCollection, validateAllContent, validateContentCompleteness *)
(*   - src/unnamed/part_000            : the command-line script           *)
(*     (runValidation, watchContent, main)                                 *)
(*                                                                         *)
(* Front-matter values are abstracted to the kind of value a key holds.    *)
(* Each kind stands for one representative JavaScript value:               *)
(*   "absent"  the key is not in the front-matter (undefined)              *)
(*   "empty"   the empty string ""             (falsy)                     *)
(*   "hollow"  an empty container: {} for an object-typed field, [] else  *)
(*   "ok"      a non-empty value that satisfies the field's rule           *)
(*   "bad"     the number 42 for a non-numeric field, the string "x" for   *)
(*             a numeric or boolean field (truthy, violates the rule)      *)
(***************************************************************************)
EXTENDS Integers, Sequences, FiniteSets, TLC

VARIABLES
  file,     \* SpecFile: the file handed to validateContentFile
  fs,       \* the content tree under src/content and the assets under public/
  edits,    \* number of changes the environment made to the files so far
  call,     \* the library call whose result the caller holds
  last,     \* SpecScore: the completeness report before the current one;
            \* SpecPass: the pass before; SpecCollector: the collector;
            \* SpecTheme: the page in the browser
  cli       \* SpecCLI: the command-line script's process

vars == <<file, fs, edits, call, last, cli>>

(***************************************************************************)
(* Bounds of the model                                                     *)
(***************************************************************************)
MaxFileEdits == 2
MaxEdits == 1
MaxFiles == 2
MaxCats == 4
MaxSkills == 3
MaxScoreEdits == 2
MaxEvents == 2
MaxBuildEdits == 2
MaxSchemaEdits == 2
MaxCollectorCalls == 3
MaxThemeCalls == 4
MaxPreferenceChanges == 1

(***************************************************************************)
(* Program constants                                                       *)
(***************************************************************************)
MinBodyLen == 50

Kinds == {"absent", "empty", "hollow", "ok", "bad"}

\* JavaScript truthiness of the representative value of a kind.
Truthy(k) == k \notin {"absent", "empty"}

\* typeof v === 'string' for the representative value of a kind, for a field
\* whose rule is z.string(): only "" and the rule-satisfying string are strings.
IsString(k) == k \in {"empty", "ok"}

NoField == "(none)"

\* Body(v) with v bound to the value of x, computed once.
With(x, Body(_)) == CHOOSE r \in {Body(v) : v \in {x}} : TRUE

Cwd == "/site"

Join(a, b) == a \o "/" \o b

RECURSIVE JoinPath(_)
\* error.path.join('.')
JoinPath(p) ==
  IF p = <<>> THEN ""
  ELSE IF Len(p) = 1 THEN p[1]
  ELSE p[1] \o "." \o JoinPath(Tail(p))

\* String(i) for the array indices that occur in a zod issue path.
IndexStr(i) ==
  CASE i = 0 -> "0" [] i = 1 -> "1" [] i = 2 -> "2" [] i = 3 -> "3"
    [] i = 4 -> "4" [] OTHER -> "n"

(***************************************************************************)
(* Schemas: the shape of each z.object, in declaration order.              *)
(* Rules:  str    z.string().min(n, msg)  / z.string().email(msg)          *)
(*         optstr z.string().optional()                                    *)
(*         opturl z.string().url(msg).optional()                           *)
(*         deflt  z.boolean().default(..) / z.number().default(..)         *)
(*         arr1   z.array(z.string()).min(1, msg)                          *)
(*         optarr z.array(z.string()).optional()                           *)
(*         num    z.number().min().max()                                   *)
(*         enum   z.enum([...])                                            *)
(*         obj    z.object({ all keys optional })                          *)
(*         cats   the categories array of skillsSchema (nested)            *)
(***************************************************************************)
F(n, r, m) == [name |-> n, rule |-> r, msg |-> m]

profileSchema == <<
  F("name", "str", "Name is required"),
  F("title", "str", "Title is required"),
  F("bio", "str", "Bio should be at least 10 characters"),
  F("email", "str", "Invalid email format"),
  F("location", "str", "Location is required"),
  F("profileImage", "str", "Profile image path is required"),
  F("social", "obj", "Expected object") >>

skillsSchema == <<
  F("categories", "cats", "At least one skill category is required") >>

projectSchema == <<
  F("title", "str", "Project title is required"),
  F("description", "str", "Description should be at least 10 characters"),
  F("image", "str", "Image path is required"),
  F("github", "opturl", "Invalid GitHub URL"),
  F("demo", "opturl", "Invalid demo URL"),
  F("featured", "deflt", "Expected boolean"),
  F("order", "deflt", "Expected number"),
  F("tags", "arr1", "At least one tag is required"),
  F("startDate", "optstr", "Expected string"),
  F("endDate", "optstr", "Expected string") >>

publicationSchema == <<
  F("title", "str", "Publication title is required"),
  F("authors", "arr1", "At least one author is required"),
  F("venue", "str", "Venue is required"),
  F("year", "num", "Year must be reasonable"),
  F("url", "opturl", "Invalid URL"),
  F("type", "enum", "Type must be one of: conference, journal, patent, preprint"),
  F("doi", "optstr", "Expected string"),
  F("abstract", "optstr", "Expected string") >>

experienceSchema == <<
  F("company", "str", "Company name is required"),
  F("position", "str", "Position is required"),
  F("startDate", "str", "Start date is required"),
  F("endDate", "optstr", "Expected string"),
  F("location", "str", "Location is required"),
  F("logo", "optstr", "Expected string"),
  F("website", "opturl", "Invalid website URL"),
  F("achievements", "arr1", "At least one achievement is required"),
  F("technologies", "optarr", "Expected array") >>

educationSchema == <<
  F("institution", "str", "Institution name is required"),
  F("degree", "str", "Degree is required"),
  F("field", "str", "Field of study is required"),
  F("startDate", "str", "Start date is required"),
  F("endDate", "optstr", "Expected string"),
  F("location", "str", "Location is required"),
  F("logo", "optstr", "Expected string"),
  F("gpa", "optstr", "Expected string"),
  F("honors", "optarr", "Expected array"),
  F("coursework", "optarr", "Expected array"),
  F("thesis", "optstr", "Expected string") >>

SchemaNames ==
  {"profile", "skills", "project", "publication", "experience", "education"}

SchemaOf(s) ==
  CASE s = "profile" -> profileSchema
    [] s = "skills" -> skillsSchema
    [] s = "project" -> projectSchema
    [] s = "publication" -> publicationSchema
    [] s = "experience" -> experienceSchema
    [] s = "education" -> educationSchema

\* Whether zod accepts the representative value of kind k under a rule.
\* For "cats", "ok" means "an array"; its elements are checked separately.
Accepts(rule, k) ==
  CASE rule = "str" -> k = "ok"
    [] rule = "optstr" -> k \in {"absent", "empty", "ok"}
    [] rule = "opturl" -> k \in {"absent", "ok"}
    [] rule = "deflt" -> k \in {"absent", "ok"}
    [] rule = "arr1" -> k = "ok"
    [] rule = "optarr" -> k \in {"absent", "hollow", "ok"}
    [] rule = "num" -> k = "ok"
    [] rule = "enum" -> k = "ok"
    [] rule = "obj" -> k \in {"hollow", "ok"}
    [] rule = "cats" -> k = "ok"

\* A rule without .optional() and without .default(): an absent key is an issue.
IsRequired(rule) == ~Accepts(rule, "absent")

\* The message of the zod issue for a rejected value: "Required" for an
\* undefined value; the custom message when the check that carries it fails
\* (enum's errorMap answers every issue); the type error otherwise.
IssueMessage(f, k) ==
  IF f.rule = "enum" THEN f.msg
  ELSE IF k = "absent" THEN "Required"
  ELSE IF f.rule \in {"str", "opturl"} /\ k = "empty" THEN f.msg
  ELSE IF f.rule \in {"arr1", "cats"} /\ k = "hollow" THEN f.msg
  ELSE "Invalid type"

(***************************************************************************)
(* Files                                                                   *)
(*   st       "missing"    fs.existsSync(path) is false                    *)
(*            "unreadable" fs.readFileSync throws (EACCES, EISDIR)         *)
(*            "malformed"  gray-matter throws on the front-matter block    *)
(*            "ok"         read and parsed                                 *)
(*   fm       front-matter key -> kind of its value                        *)
(*   cats     elements of data.categories when that key holds an array     *)
(*   bodyLen  content.length;  bodyPad  leading + trailing white space     *)
(*   imageExists / logoExists  whether public/<image>, public/<logo> exist *)
(*   profileImageExists       whether public/<profileImage> exists        *)
(***************************************************************************)
FileStates == {"missing", "unreadable", "malformed", "ok"}

Body(len, pad) == [len |-> len, pad |-> pad]

Bodies == {Body(0, 0), Body(49, 0), Body(50, 0), Body(60, 20), Body(100, 0), Body(101, 0)}

LongBody == Body(101, 0)

FieldNames(schema) == {schema[i].name : i \in 1..Len(schema)}

\* Keys a front-matter block may hold: the schema's own, plus image and logo,
\* which validateContentFile reads whatever the schema is.
Keys(s) == FieldNames(SchemaOf(s)) \cup {"image", "logo"}

Skill(n, l, c) == [name |-> n, level |-> l, color |-> c]

ValidSkill == Skill("ok", "ok", "ok")

\* isNull: the element of the categories array is null (an empty "-" item
\* of the YAML list) and has no keys at all.
Category(n, k, items) == [name |-> n, skills |-> k, items |-> items, isNull |-> FALSE]

NullCategory == [Category("absent", "absent", <<>>) EXCEPT !.isNull = TRUE]

ValidCategory == Category("ok", "ok", <<ValidSkill>>)

ValidFile(s) ==
  [st |-> "ok",
   fm |-> [k \in Keys(s) |-> IF k \in FieldNames(SchemaOf(s)) THEN "ok" ELSE "absent"],
   cats |-> IF s = "skills" THEN <<ValidCategory>> ELSE <<>>,
   body |-> LongBody,
   imageExists |-> TRUE,
   logoExists |-> TRUE,
   profileImageExists |-> TRUE]

MissingFile(s) == [ValidFile(s) EXCEPT !.st = "missing"]

(***************************************************************************)
(* zod: schema.safeParse(frontmatter).error.errors, as <<path, message>>   *)
(***************************************************************************)
Issue(p, m) == [path |-> p, message |-> m]

\* One skill object of a category, at categories.ci.skills.si
SkillIssues(sk, ci, si) ==
  LET at(n) == <<"categories", IndexStr(ci), "skills", IndexStr(si), n>>
      one(n, k, rule, msg) ==
        IF Accepts(rule, k) THEN <<>>
        ELSE <<Issue(at(n), IssueMessage(F(n, rule, msg), k))>>
  IN one("name", sk.name, "str", "Skill name is required")
     \o one("level", sk.level, "enum",
            "Level must be one of: Beginner, Intermediate, Advanced, Expert")
     \o one("color", sk.color, "str", "Color is required")

RECURSIVE SkillsIssues(_, _, _)
SkillsIssues(items, ci, si) ==
  IF si >= Len(items) THEN <<>>
  ELSE SkillIssues(items[si + 1], ci, si) \o SkillsIssues(items, ci, si + 1)

\* One category object, at categories.ci
CategoryIssues(cat, ci) ==
  LET at(n) == <<"categories", IndexStr(ci), n>>
      nameIssue ==
        IF Accepts("str", cat.name) THEN <<>>
        ELSE <<Issue(at("name"),
                     IssueMessage(F("name", "str", "Category name is required"), cat.name))>>
      skillsIssue ==
        IF cat.skills # "ok"
        THEN <<Issue(at("skills"),
                     IF cat.skills = "absent" THEN "Required" ELSE "Invalid type")>>
        ELSE (IF Len(cat.items) < 1
              THEN <<Issue(at("skills"), "Each category must have at least one skill")>>
              ELSE <<>>)
             \o SkillsIssues(cat.items, ci, 0)
  IN IF cat.isNull
     THEN <<Issue(<<"categories", IndexStr(ci)>>, "Expected object, received null")>>
     ELSE nameIssue \o skillsIssue

RECURSIVE CategoriesIssues(_, _)
CategoriesIssues(cats, ci) ==
  IF ci >= Len(cats) THEN <<>>
  ELSE CategoryIssues(cats[ci + 1], ci) \o CategoriesIssues(cats, ci + 1)

\* The issues of one key of the shape.
FieldIssues(f, k, cats) ==
  IF f.rule = "cats" /\ k = "ok"
  THEN (IF Len(cats) < 1 THEN <<Issue(<<f.name>>, f.msg)>> ELSE <<>>)
       \o CategoriesIssues(cats, 0)
  ELSE IF Accepts(f.rule, k) THEN <<>>
  ELSE <<Issue(<<f.name>>, IssueMessage(f, k))>>

RECURSIVE ShapeIssues(_, _, _, _)
ShapeIssues(schema, fm, cats, i) ==
  IF i > Len(schema) THEN <<>>
  ELSE FieldIssues(schema[i], fm[schema[i].name], cats)
       \o ShapeIssues(schema, fm, cats, i + 1)

\* schema.safeParse(frontmatter): keys outside the shape are stripped.
safeParse(schema, fm, cats) == ShapeIssues(schema, fm, cats, 1)

(***************************************************************************)
(* validateContentFile                                                     *)
(***************************************************************************)
Err(f, fld, m) == [file |-> f, field |-> fld, message |-> m, severity |-> "error"]

Warn(f, fld, m) == [file |-> f, field |-> fld, message |-> m]

\* What a function call gives back: a ValidationResult, or an exception
\* that left the function (threw).
Returned(errors, warnings, valid) ==
  [threw |-> FALSE, isValid |-> valid, errors |-> errors, warnings |-> warnings]

Thrown(m) ==
  [threw |-> TRUE, isValid |-> FALSE, errors |-> <<>>, warnings |-> <<>>, message |-> m]

\* The message of the exception fs.readFileSync or matter() throws, "" if none.
ReadError(f) ==
  CASE f.st = "unreadable" -> "EACCES: permission denied"
    [] f.st = "malformed" -> "bad indentation of a mapping entry"
    [] OTHER -> ""

\* As IssueErrors, but field: error.path[0] instead of error.path.join('.')
IssueErrorsFirstSegment(issues, filePath) ==
  With(issues, LAMBDA is :
    [i \in 1..Len(is) |-> Err(filePath, is[i].path[1], is[i].message)])

\* result.error.errors.forEach(error => errors.push({...}))
IssueErrors(issues, filePath) ==
  With(issues, LAMBDA is :
    [i \in 1..Len(is) |-> Err(filePath, JoinPath(is[i].path), is[i].message)])

\* contentType === 'project' || ... || contentType === 'education'
ChecksBodyLength(contentType) ==
  contentType \in {"project", "publication", "experience", "education"}

\* !content || content.trim().length < 50
IsShort(body) == body.len = 0 \/ body.len - body.pad < MinBodyLen

ShortWarning(f, filePath, contentType) ==
  IF ChecksBodyLength(contentType) /\ IsShort(f.body)
  THEN <<Warn(filePath, NoField,
              contentType \o " content is very short (less than 50 characters). Consider adding more details.")>>
  ELSE <<>>

\* frontmatter.image && typeof frontmatter.image === 'string' && !fs.existsSync(..)
AssetWarning(f, filePath, key, exists, what) ==
  IF Truthy(f.fm[key]) /\ IsString(f.fm[key]) /\ ~exists
  THEN <<Warn(filePath, key, "Referenced " \o what \o " file not found")>>
  ELSE <<>>

\* The try block: early (the return inside it was taken), thrown (the message
\* of the exception that ended it, "" if none), and the entries pushed so far.
TryValidateFile(f, filePath, s, contentType) ==
  IF f.st = "missing"
  THEN [early |-> TRUE, thrown |-> "",
        errors |-> <<Err(filePath, NoField, contentType \o " file not found")>>,
        warnings |-> <<>>]
  ELSE IF ReadError(f) # ""
  THEN [early |-> FALSE, thrown |-> ReadError(f), errors |-> <<>>, warnings |-> <<>>]
  ELSE [early |-> FALSE, thrown |-> "",
        errors |-> IssueErrors(safeParse(SchemaOf(s), f.fm, f.cats), filePath),
        warnings |-> ShortWarning(f, filePath, contentType)
                     \o AssetWarning(f, filePath, "image", f.imageExists, "image")
                     \o AssetWarning(f, filePath, "logo", f.logoExists, "logo")]

\* The catch block and the return statements, for the outcome t of the try.
FinishFile(t, filePath) ==
  IF t.early THEN Returned(t.errors, t.warnings, FALSE)
  ELSE IF t.thrown # ""
  THEN Returned(t.errors \o <<Err(filePath, NoField, "Failed to parse file: " \o t.thrown)>>,
                t.warnings, FALSE)
  ELSE Returned(t.errors, t.warnings, Len(t.errors) = 0)

\* As validateContentFile, but isValid also asks for no warnings.
validateContentFileStrict(f, filePath, s, contentType) ==
  With(FinishFile(TryValidateFile(f, filePath, s, contentType), filePath), LAMBDA r :
    [r EXCEPT !.isValid = Len(r.errors) = 0 /\ Len(r.warnings) = 0])

\* As validateContentFile, without the try/catch around the read and parse.
validateContentFileNoCatch(f, filePath, s, contentType) ==
  With(TryValidateFile(f, filePath, s, contentType), LAMBDA t :
    IF ~t.early /\ t.thrown # "" THEN Thrown(t.thrown) ELSE FinishFile(t, filePath))

validateContentFile(f, filePath, s, contentType) ==
  With(TryValidateFile(f, filePath, s, contentType), LAMBDA t : FinishFile(t, filePath))

(***************************************************************************)
(* The content tree.                                                       *)
(*   fs.profile, fs.skills : src/content/{profile,skills}/main.md          *)
(*   fs.coll[c]            : the directory src/content/<c>                 *)
(*      st       "missing" fs.existsSync is false                          *)
(*               "notdir"  the path exists, fs.readdirSync throws ENOTDIR  *)
(*               "dir"     a directory                                     *)
(*      entries  what fs.readdirSync lists, in its order; a name is the    *)
(*               sequence of its parts, ".md" last for a Markdown file and *)
(*               "." first for a hidden one                                *)
(***************************************************************************)
CollectionNames == {"projects", "publications", "experience", "education"}

\* The collections in the order of validateContentCompleteness.
collectionsByWeight == <<
  [name |-> "projects", schema |-> "project"],
  [name |-> "experience", schema |-> "experience"],
  [name |-> "publications", schema |-> "publication"],
  [name |-> "education", schema |-> "education"] >>

\* collections of validateAllContent, in its order
collections == <<
  [name |-> "projects", schema |-> "project"],
  [name |-> "publications", schema |-> "publication"],
  [name |-> "experience", schema |-> "experience"],
  [name |-> "education", schema |-> "education"] >>

SchemaOfCollection(c) ==
  CASE c = "projects" -> "project"
    [] c = "publications" -> "publication"
    [] c = "experience" -> "experience"
    [] c = "education" -> "education"

NamePool == {<<"a", ".md">>, <<"b", ".md">>, <<".", "draft", ".md">>, <<"notes", ".txt">>}

RECURSIVE NameStr(_)
NameStr(n) == IF n = <<>> THEN "" ELSE Head(n) \o NameStr(Tail(n))

\* file.endsWith('.md')
EndsWithMd(n) == n[Len(n)] = ".md"

\* file.startsWith('.')
StartsWithDot(n) == n[1] = "."

Entry(n, f) == [name |-> n, f |-> f]

Dir(st, entries) == [st |-> st, entries |-> entries]

ContentDir == Join(Cwd, "src/content")

CollectionPath(c) == Join(ContentDir, c)

profilePath == Join(Cwd, "src/content/profile/main.md")

skillsPath == Join(Cwd, "src/content/skills/main.md")

(***************************************************************************)
(* validateCollection                                                      *)
(***************************************************************************)
\* .filter(file => file.endsWith('.md') && !file.startsWith('.'))
IsContentFile(e) == EndsWithMd(e.name) /\ ~StartsWithDot(e.name)

\* Array.prototype.filter keeps the order of the listing.
ContentFiles(entries) == SelectSeq(entries, IsContentFile)

\* One turn of files.forEach: validateContentFile, then push its errors and
\* warnings; an exception leaving validateContentFile ends the loop.
PushFile(acc, r) ==
  IF r.threw THEN [acc EXCEPT !.thrown = r.message]
  ELSE [acc EXCEPT !.errors = @ \o r.errors, !.warnings = @ \o r.warnings]

RECURSIVE ForEachFileStopOnError(_, _, _, _, _)
\* As ForEachFile, but the loop ends at the first file that has errors.
ForEachFileStopOnError(files, i, c, s, acc) ==
  IF i > Len(files) \/ acc.thrown # "" \/ acc.errors # <<>> THEN acc
  ELSE With(PushFile(acc, validateContentFile(files[i].f,
                            Join(CollectionPath(c), NameStr(files[i].name)), s, c)),
            LAMBDA a : ForEachFileStopOnError(files, i + 1, c, s, a))

RECURSIVE ForEachFile(_, _, _, _, _)
\* files.forEach(...), from the i-th file on
ForEachFile(files, i, c, s, acc) ==
  IF i > Len(files) \/ acc.thrown # "" THEN acc
  ELSE With(PushFile(acc, validateContentFile(files[i].f,
                            Join(CollectionPath(c), NameStr(files[i].name)), s, c)),
            LAMBDA a : ForEachFile(files, i + 1, c, s, a))

\* As TryListed, with an empty listing pushed to the errors.
TryListedEmptyIsError(files, c, s) ==
  ForEachFile(files, 1, c, s,
    [early |-> FALSE, thrown |-> "",
     errors |-> IF Len(files) = 0
                THEN <<Err(CollectionPath(c), NoField,
                           "No content files found in " \o c \o " collection")>>
                ELSE <<>>,
     warnings |-> <<>>])

\* The try block of validateCollection over the listing `files`.
TryListed(files, c, s) ==
  ForEachFile(files, 1, c, s,
    [early |-> FALSE, thrown |-> "", errors |-> <<>>,
     warnings |-> IF Len(files) = 0
                  THEN <<Warn(CollectionPath(c), NoField,
                              "No content files found in " \o c \o " collection")>>
                  ELSE <<>>])

TryValidateCollection(fsys, c, s) ==
  IF fsys.coll[c].st = "missing"
  THEN [early |-> TRUE, thrown |-> "",
        errors |-> <<Err(CollectionPath(c), NoField,
                         "Collection directory not found: " \o c)>>,
        warnings |-> <<>>]
  ELSE IF fsys.coll[c].st = "notdir"
  THEN [early |-> FALSE, thrown |-> "ENOTDIR: not a directory, scandir",
        errors |-> <<>>, warnings |-> <<>>]
  ELSE With(ContentFiles(fsys.coll[c].entries), LAMBDA files : TryListed(files, c, s))

\* The catch block and the return statements, for the outcome t of the try.
FinishCollection(t, c) ==
  IF t.early THEN Returned(t.errors, t.warnings, FALSE)
  ELSE IF t.thrown # ""
  THEN Returned(t.errors \o <<Err(CollectionPath(c), NoField,
                                  "Failed to read collection directory: " \o t.thrown)>>,
                t.warnings, FALSE)
  ELSE Returned(t.errors, t.warnings, Len(t.errors) = 0)

validateCollection(fsys, c, s) ==
  With(TryValidateCollection(fsys, c, s), LAMBDA t : FinishCollection(t, c))

(***************************************************************************)
(* validateAllContent                                                      *)
(***************************************************************************)
validateProfile(fsys) == validateContentFile(fsys.profile, profilePath, "profile", "profile")

validateSkills(fsys) == validateContentFile(fsys.skills, skillsPath, "skills", "skills")

\* The i-th of the six parts of validateAllContent, in the order they run.
Part(fsys, i) ==
  IF i = 1 THEN validateProfile(fsys)
  ELSE IF i = 2 THEN validateSkills(fsys)
  ELSE validateCollection(fsys, collections[i - 2].name, collections[i - 2].schema)

\* allErrors.push(...r.errors); allWarnings.push(...r.warnings)
PushPart(acc, r) ==
  IF r.threw THEN r
  ELSE [acc EXCEPT !.errors = @ \o r.errors, !.warnings = @ \o r.warnings]

RECURSIVE PushAll(_, _, _)
\* The parts from the i-th on; an exception leaving a part leaves
\* validateAllContent too.
PushAll(fsys, i, acc) ==
  IF i > 2 + Len(collections) \/ acc.threw THEN acc
  ELSE With(PushPart(acc, Part(fsys, i)), LAMBDA a : PushAll(fsys, i + 1, a))

\* return { isValid: allErrors.length === 0, errors, warnings }
FinishAll(acc) ==
  IF acc.threw THEN acc ELSE Returned(acc.errors, acc.warnings, Len(acc.errors) = 0)

\* As validateAllContent, but isValid also asks for no warnings.
validateAllContentStrict(fsys) ==
  With(PushAll(fsys, 1, Returned(<<>>, <<>>, TRUE)), LAMBDA acc :
    IF acc.threw THEN acc
    ELSE Returned(acc.errors, acc.warnings, Len(acc.errors) = 0 /\ Len(acc.warnings) = 0))

validateAllContent(fsys) ==
  With(PushAll(fsys, 1, Returned(<<>>, <<>>, TRUE)), LAMBDA acc : FinishAll(acc))

(***************************************************************************)
(* SpecFile: validateContentFile on one file.  The environment prepares    *)
(* the file (at most MaxFileEdits changes to a fully valid one), then the  *)
(* function is called on it.                                               *)
(***************************************************************************)
NoCall == [op |-> "none"]

NoFile == [schema |-> "none"]

NoFS == [profile |-> "none"]

NoReport == [score |-> -1, onlyAdded |-> FALSE]

NoCli == [pc |-> "none"]

\* Where a file of each content type lives.
PathOf(s) ==
  CASE s = "profile" -> Join(Cwd, "src/content/profile/main.md")
    [] s = "skills" -> Join(Cwd, "src/content/skills/main.md")
    [] s = "project" -> Join(Cwd, "src/content/projects/a.md")
    [] s = "publication" -> Join(Cwd, "src/content/publications/a.md")
    [] s = "experience" -> Join(Cwd, "src/content/experience/a.md")
    [] s = "education" -> Join(Cwd, "src/content/education/a.md")

\* The contentType argument the callers pass with each schema:
\* validateProfile, validateSkills, ContentValidator.validateProject .. and
\* validateCollection, which passes the collection's name.
CollectionOf(s) ==
  CASE s = "project" -> "projects"
    [] s = "publication" -> "publications"
    [] OTHER -> s

ContentTypeArgs(s) == {s, CollectionOf(s)}

\* Kinds the environment may give a key ("categories" holds an array or not;
\* the array's elements are edited one by one).
KindsFor(key) == IF key = "categories" THEN Kinds \ {"hollow"} ELSE Kinds

\* The edits of the skills array: one more category, one more skill, or
\* another kind for one nested key.
\* The categories that are objects.
Objects(cats) == {j \in 1..Len(cats) : ~cats[j].isNull}

CatsEdits(cats) ==
  (IF Len(cats) < MaxCats THEN {Append(cats, ValidCategory), Append(cats, NullCategory)} ELSE {})
  \cup (IF Len(cats) > 0 THEN {SubSeq(cats, 1, Len(cats) - 1)} ELSE {})
  \cup {[cats EXCEPT ![i].items = Append(@, ValidSkill)] :
          i \in {j \in Objects(cats) : Len(cats[j].items) < MaxSkills}}
  \cup {[cats EXCEPT ![i].items = SubSeq(@, 1, Len(@) - 1)] :
          i \in {j \in Objects(cats) : Len(cats[j].items) > 0}}
  \cup {[cats EXCEPT ![i].name = k] : i \in Objects(cats), k \in {"absent", "empty"}}
  \cup {[cats EXCEPT ![i].skills = k] : i \in Objects(cats), k \in {"absent", "bad"}}
  \cup {[cats EXCEPT ![i].items[1].level = k] :
          i \in {j \in Objects(cats) : Len(cats[j].items) > 0}, k \in {"absent", "bad"}}
  \cup {[cats EXCEPT ![i].items[1].color = "absent"] :
          i \in {j \in Objects(cats) : Len(cats[j].items) > 0}}

\* Every file one change away from f.
FileEdits(s, f) ==
  UNION {{[f EXCEPT !.fm[k] = v] : v \in KindsFor(k)} : k \in DOMAIN f.fm}
  \cup {[f EXCEPT !.st = st] : st \in FileStates}
  \cup {[f EXCEPT !.body = b] : b \in Bodies}
  \cup {[f EXCEPT !.imageExists = ~@], [f EXCEPT !.logoExists = ~@]}
  \cup (IF s = "skills" THEN {[f EXCEPT !.cats = c] : c \in CatsEdits(f.cats)} ELSE {})

\* A complete, valid site: every file valid, two projects, one of each other.
InitFS ==
  [profile |-> ValidFile("profile"),
   skills |-> ValidFile("skills"),
   coll |-> [c \in CollectionNames |->
     Dir("dir",
         IF c = "projects"
         THEN <<Entry(<<"a", ".md">>, ValidFile("project")),
                Entry(<<"b", ".md">>, ValidFile("project"))>>
         ELSE <<Entry(<<"a", ".md">>, ValidFile(SchemaOfCollection(c)))>>)]]

InitFile ==
  /\ file \in {[schema |-> s, f |-> ValidFile(s)] : s \in SchemaNames}
  /\ fs = NoFS
  /\ edits = 0
  /\ call = NoCall
  /\ last = NoReport
  /\ cli = NoCli

EditFile ==
  /\ call = NoCall
  /\ edits < MaxFileEdits
  /\ \E g \in FileEdits(file.schema, file.f) \ {file.f} :
       file' = [file EXCEPT !.f = g]
  /\ edits' = edits + 1
  /\ call' = NoCall
  /\ UNCHANGED <<fs, last, cli>>

CallValidateContentFile ==
  /\ call = NoCall
  /\ \E contentType \in ContentTypeArgs(file.schema) :
       call' = [op |-> "validateContentFile", arg |-> contentType,
                res |-> validateContentFile(file.f, PathOf(file.schema),
                                            file.schema, contentType)]
  /\ UNCHANGED <<file, fs, edits, last, cli>>

\* The caller is done with the result: it is discarded, nothing is kept.
Discard ==
  /\ call # NoCall
  /\ call' = NoCall
  /\ UNCHANGED <<file, fs, edits, last, cli>>

NextFile == EditFile \/ CallValidateContentFile \/ Discard

SpecFile == InitFile /\ [][NextFile]_vars

(***************************************************************************)
(* What the specification calls a valid record, stated on the data alone.  *)
(***************************************************************************)
SkillConforms(sk) == sk.name = "ok" /\ sk.level = "ok" /\ sk.color = "ok"

CategoryConforms(c) ==
  /\ ~c.isNull
  /\ c.name = "ok"
  /\ c.skills = "ok"
  /\ Len(c.items) >= 1
  /\ \A j \in 1..Len(c.items) : SkillConforms(c.items[j])

\* The key of the shape at position i holds an acceptable value.
KeyConforms(s, f, i) ==
  LET fld == SchemaOf(s)[i]
  IN IF fld.rule = "cats"
     THEN /\ f.fm[fld.name] = "ok"
          /\ Len(f.cats) >= 1
          /\ \A c \in 1..Len(f.cats) : CategoryConforms(f.cats[c])
     ELSE Accepts(fld.rule, f.fm[fld.name])

Conforms(s, f) == \A i \in 1..Len(SchemaOf(s)) : KeyConforms(s, f, i)

\* Required top-level fields that are absent while every other field is valid.
TopHoles(s, f) ==
  {SchemaOf(s)[i].name : i \in
     {j \in 1..Len(SchemaOf(s)) :
        /\ IsRequired(SchemaOf(s)[j].rule)
        /\ f.fm[SchemaOf(s)[j].name] = "absent"
        /\ \A k \in 1..Len(SchemaOf(s)) : k # j => KeyConforms(s, f, k)}}

\* Required fields of the nested skills objects that are absent while every
\* other field is valid, under their dotted names.
NestedHoles(s, f) ==
  IF s # "skills" \/ f.fm["categories"] # "ok" THEN {}
  ELSE LET others(c) == \A d \in 1..Len(f.cats) : d # c => CategoryConforms(f.cats[d])
           pre(c) == "categories." \o IndexStr(c - 1)
       IN {pre(c) \o ".name" : c \in
             {d \in 1..Len(f.cats) :
                others(d) /\ f.cats[d].name = "absent"
                /\ CategoryConforms([f.cats[d] EXCEPT !.name = "ok"])}}
          \cup {pre(c) \o ".skills" : c \in
             {d \in 1..Len(f.cats) :
                others(d) /\ f.cats[d].skills = "absent" /\ f.cats[d].name = "ok"}}
          \cup UNION {
             {pre(c) \o ".skills.0.level" : x \in
                {y \in {1} : Len(f.cats[c].items) >= 1
                   /\ others(c) /\ f.cats[c].items[1].level = "absent"
                   /\ CategoryConforms([f.cats[c] EXCEPT !.items[1].level = "ok"])}}
             \cup
             {pre(c) \o ".skills.0.color" : x \in
                {y \in {1} : Len(f.cats[c].items) >= 1
                   /\ others(c) /\ f.cats[c].items[1].color = "absent"
                   /\ CategoryConforms([f.cats[c] EXCEPT !.items[1].color = "ok"])}}
             : c \in 1..Len(f.cats)}

Holes(s, f) == TopHoles(s, f) \cup NestedHoles(s, f)

Returns(opname) == call.op = opname

\* C1: a file that exists and parses, whose front-matter is valid except that
\* one required field is absent, is reported invalid, and the errors hold an
\* entry whose field is the (dotted) name of the missing field.
C1_MissingRequiredFieldIsNamed ==
  (Returns("validateContentFile") /\ file.f.st = "ok") =>
    \A h \in Holes(file.schema, file.f) :
      /\ ~call.res.threw
      /\ ~call.res.isValid
      /\ \E i \in 1..Len(call.res.errors) : call.res.errors[i].field = h

C1_Witness ==
  /\ Returns("validateContentFile")
  /\ file.f.st = "ok"
  /\ file.schema = "education"
  /\ Holes(file.schema, file.f) = {"field"}

C1_WitnessNested ==
  /\ Returns("validateContentFile")
  /\ file.f.st = "ok"
  /\ "categories.0.skills.0.level" \in Holes(file.schema, file.f)

\* C2: a file that exists and parses, whose front-matter satisfies every rule
\* of the schema, is valid with no errors, whatever warnings it produces.
C2_ValidRecordPasses ==
  (Returns("validateContentFile") /\ file.f.st = "ok"
     /\ Conforms(file.schema, file.f)) =>
    /\ ~call.res.threw
    /\ call.res.isValid
    /\ call.res.errors = <<>>

C2_Witness ==
  /\ Returns("validateContentFile")
  /\ file.f.st = "ok"
  /\ Conforms(file.schema, file.f)
  /\ Len(call.res.warnings) = 2
  /\ call.res.isValid

(***************************************************************************)
(* Spec: the library over a content tree.  The environment changes the     *)
(* tree (at most MaxEdits changes to a complete, valid site); the callers  *)
(* run validateContentFile, validateCollection and validateAllContent.     *)
(***************************************************************************)
\* The key that names an asset in a file of each type.
AssetKey(s) == IF s \in {"experience", "education"} THEN "logo" ELSE "image"

\* The files the environment writes: a valid one, one without its first
\* required field, one with a rejected value in its last field, one with a
\* short body and a missing asset, an unreadable one, a malformed one.
Samples(s) ==
  LET v == ValidFile(s)
      sch == SchemaOf(s)
  IN {v,
      [v EXCEPT !.fm[sch[1].name] = "absent"],
      [v EXCEPT !.fm[sch[Len(sch)].name] = "bad"],
      [v EXCEPT !.body = Body(60, 20), !.fm[AssetKey(s)] = "ok",
                !.imageExists = FALSE, !.logoExists = FALSE],
      [v EXCEPT !.st = "unreadable"],
      [v EXCEPT !.st = "malformed"]}

HasName(entries, n) == \E i \in 1..Len(entries) : entries[i].name = n

RemoveAt(seq, i) == SubSeq(seq, 1, i - 1) \o SubSeq(seq, i + 1, Len(seq))

\* Every directory one change away from d.
DirEdits(c, d) ==
  {[d EXCEPT !.st = st] : st \in {"missing", "notdir", "dir"}}
  \cup {[d EXCEPT !.entries[i].f = g] :
          i \in 1..Len(d.entries), g \in Samples(SchemaOfCollection(c))}
  \cup {[d EXCEPT !.entries = RemoveAt(@, i)] : i \in 1..Len(d.entries)}
  \cup (IF Len(d.entries) < MaxFiles
        THEN {[d EXCEPT !.entries = Append(@, Entry(n, g))] :
                n \in {m \in NamePool : ~HasName(d.entries, m)},
                g \in Samples(SchemaOfCollection(c))}
        ELSE {})

\* A directory that does not exist, or is no directory, lists nothing.
DirOk(d) == d.st = "dir" \/ d.entries = <<>>

\* A site in a poor state: a profile without its name, no skills file, an
\* unreadable project beside a valid one, no publications directory, an
\* experience entry with a short body and no logo file, and a plain file where
\* the education directory should be.
RoughFS ==
  [profile |-> [ValidFile("profile") EXCEPT !.fm["name"] = "absent"],
   skills |-> MissingFile("skills"),
   coll |-> [c \in CollectionNames |->
     CASE c = "projects" ->
            Dir("dir", <<Entry(<<"a", ".md">>, [ValidFile("project") EXCEPT !.st = "unreadable"]),
                         Entry(<<"b", ".md">>, ValidFile("project"))>>)
       [] c = "publications" -> Dir("missing", <<>>)
       [] c = "experience" ->
            Dir("dir", <<Entry(<<"a", ".md">>,
                               [ValidFile("experience") EXCEPT !.body = Body(60, 20),
                                                               !.logoExists = FALSE])>>)
       [] c = "education" -> Dir("notdir", <<>>)]]

\* A site not yet written: no profile, no skills, four empty directories.
EmptyFS ==
  [profile |-> MissingFile("profile"),
   skills |-> MissingFile("skills"),
   coll |-> [c \in CollectionNames |-> Dir("dir", <<>>)]]

StartTrees == {InitFS, RoughFS, EmptyFS}

Init ==
  /\ fs \in StartTrees
  /\ file = NoFile
  /\ edits = 0
  /\ call = NoCall
  /\ last = NoReport
  /\ cli = NoCli

EditProfile ==
  /\ call = NoCall
  /\ edits < MaxEdits
  /\ \E g \in (Samples("profile") \cup {MissingFile("profile")}) \ {fs.profile} :
       fs' = [fs EXCEPT !.profile = g]
  /\ edits' = edits + 1
  /\ call' = NoCall
  /\ UNCHANGED <<file, last, cli>>

EditSkills ==
  /\ call = NoCall
  /\ edits < MaxEdits
  /\ \E g \in (Samples("skills") \cup {MissingFile("skills")}) \ {fs.skills} :
       fs' = [fs EXCEPT !.skills = g]
  /\ edits' = edits + 1
  /\ call' = NoCall
  /\ UNCHANGED <<file, last, cli>>

EditCollection ==
  /\ call = NoCall
  /\ edits < MaxEdits
  /\ \E c \in CollectionNames :
       \E d \in {e \in DirEdits(c, fs.coll[c]) : DirOk(e)} \ {fs.coll[c]} :
         fs' = [fs EXCEPT !.coll[c] = d]
  /\ edits' = edits + 1
  /\ call' = NoCall
  /\ UNCHANGED <<file, last, cli>>

\* The file a path names: the entry of that name, or no file.
FileAt(fsys, c, n) ==
  LET d == fsys.coll[c]
      hits == {i \in 1..Len(d.entries) : d.entries[i].name = n}
  IN IF d.st # "dir" \/ hits = {} THEN MissingFile(SchemaOfCollection(c))
     ELSE d.entries[CHOOSE i \in hits : TRUE].f

\* validateProfile(), validateSkills()
CallValidateMain ==
  /\ call = NoCall
  /\ \E s \in {"profile", "skills"} :
       call' = [op |-> "validateContentFile", arg |-> <<s, <<"main", ".md">>>>,
                res |-> IF s = "profile" THEN validateProfile(fs) ELSE validateSkills(fs)]
  /\ UNCHANGED <<file, fs, edits, last, cli>>

\* ContentValidator.validateProject(filename) and its three siblings
CallValidateItem ==
  /\ call = NoCall
  /\ \E c \in CollectionNames, n \in NamePool :
       call' = [op |-> "validateContentFile", arg |-> <<c, n>>,
                res |-> validateContentFile(FileAt(fs, c, n),
                                            Join(CollectionPath(c), NameStr(n)),
                                            SchemaOfCollection(c), SchemaOfCollection(c))]
  /\ UNCHANGED <<file, fs, edits, last, cli>>

\* ContentValidator.validateCollectionByName(collectionName)
CallValidateCollection ==
  /\ call = NoCall
  /\ \E c \in CollectionNames :
       call' = [op |-> "validateCollection", arg |-> c,
                res |-> validateCollection(fs, c, SchemaOfCollection(c))]
  /\ UNCHANGED <<file, fs, edits, last, cli>>

CallValidateAllContent ==
  /\ call = NoCall
  /\ call' = [op |-> "validateAllContent", arg |-> "",
              res |-> validateAllContent(fs)]
  /\ UNCHANGED <<file, fs, edits, last, cli>>

Next ==
  \/ EditProfile
  \/ EditSkills
  \/ EditCollection
  \/ CallValidateMain
  \/ CallValidateItem
  \/ CallValidateCollection
  \/ CallValidateAllContent
  \/ Discard

Spec == Init /\ [][Next]_vars

(***************************************************************************)
(* The state of the tree, stated on the data alone.                        *)
(***************************************************************************)
HasErrorFor(res, path) == \E i \in 1..Len(res.errors) : res.errors[i].file = path

ErrorsFor(res, paths) == SelectSeq(res.errors, LAMBDA e : e.file \in paths)

WarningsFor(res, paths) == SelectSeq(res.warnings, LAMBDA w : w.file \in paths)

EntryPath(c, e) == Join(CollectionPath(c), NameStr(e.name))

\* The files of a collection: the visible Markdown files of its listing.
Listed(fsys, c) ==
  {i \in 1..Len(fsys.coll[c].entries) :
     /\ fsys.coll[c].entries[i].name[Len(fsys.coll[c].entries[i].name)] = ".md"
     /\ fsys.coll[c].entries[i].name[1] # "."}

\* Every path an entry of collection c may be reported under.
PathsOf(c) == {CollectionPath(c)} \cup {Join(CollectionPath(c), NameStr(n)) : n \in NamePool}

Broken(f) == f.st \in {"unreadable", "malformed"}

FileClean(s, f) == f.st = "ok" /\ Conforms(s, f)

CollectionClean(fsys, c) ==
  /\ fsys.coll[c].st = "dir"
  /\ \A i \in Listed(fsys, c) : FileClean(SchemaOfCollection(c), fsys.coll[c].entries[i].f)

AllClean(fsys) ==
  /\ FileClean("profile", fsys.profile)
  /\ FileClean("skills", fsys.skills)
  /\ \A c \in CollectionNames : CollectionClean(fsys, c)

\* The failures of one collection are all among the errors of res.
CollectionFailuresRecorded(fsys, c, res) ==
  /\ fsys.coll[c].st # "dir" => HasErrorFor(res, CollectionPath(c))
  /\ fsys.coll[c].st = "dir" =>
       \A i \in Listed(fsys, c) :
         fsys.coll[c].entries[i].f.st # "ok" =>
           HasErrorFor(res, EntryPath(c, fsys.coll[c].entries[i]))

\* The file a validateContentFile call of Spec was about, and its path.
CalledFile ==
  IF call.arg[1] = "profile" THEN fs.profile
  ELSE IF call.arg[1] = "skills" THEN fs.skills
  ELSE FileAt(fs, call.arg[1], call.arg[2])

CalledPath ==
  IF call.arg[1] = "profile" THEN profilePath
  ELSE IF call.arg[1] = "skills" THEN skillsPath
  ELSE Join(CollectionPath(call.arg[1]), NameStr(call.arg[2]))

\* C3: no exception leaves validateContentFile, validateCollection or
\* validateAllContent; a missing, unreadable or malformed file, a missing
\* directory and a path that is no directory each appear among the errors.
C3_FailuresBecomeErrors ==
  /\ call # NoCall => ~call.res.threw
  /\ Returns("validateContentFile") =>
       (CalledFile.st # "ok" => HasErrorFor(call.res, CalledPath))
  /\ Returns("validateCollection") =>
       CollectionFailuresRecorded(fs, call.arg, call.res)
  /\ Returns("validateAllContent") =>
       /\ fs.profile.st # "ok" => HasErrorFor(call.res, profilePath)
       /\ fs.skills.st # "ok" => HasErrorFor(call.res, skillsPath)
       /\ \A c \in CollectionNames : CollectionFailuresRecorded(fs, c, call.res)

C3_Witness ==
  /\ Returns("validateAllContent")
  /\ fs.skills.st = "missing"
  /\ fs.profile.st = "malformed"
  /\ fs.coll["publications"].st = "missing"
  /\ fs.coll["education"].st = "notdir"
  /\ \E i \in Listed(fs, "projects") : fs.coll["projects"].entries[i].f.st = "unreadable"
  /\ Len(call.res.errors) = 5

\* C4: a file of a collection that cannot be read or parsed gets exactly one
\* error entry; validateCollection still reports every other file of the
\* collection as validateContentFile reports it, and validateAllContent still
\* reports every collection as validateCollection reports it.
C4_FailureIsRecordedAndRunContinues ==
  /\ Returns("validateCollection") =>
       LET c == call.arg
           d == fs.coll[c]
       IN d.st = "dir" =>
            \A i \in Listed(fs, c) :
              LET p == EntryPath(c, d.entries[i])
                  alone == validateContentFile(d.entries[i].f, p, SchemaOfCollection(c), c)
              IN /\ Broken(d.entries[i].f) => Len(ErrorsFor(call.res, {p})) = 1
                 /\ ErrorsFor(call.res, {p}) = alone.errors
                 /\ WarningsFor(call.res, {p}) = alone.warnings
  /\ Returns("validateAllContent") =>
       \A c \in CollectionNames :
         LET alone == validateCollection(fs, c, SchemaOfCollection(c))
         IN /\ ErrorsFor(call.res, PathsOf(c)) = alone.errors
            /\ WarningsFor(call.res, PathsOf(c)) = alone.warnings
            /\ fs.coll[c].st = "dir" =>
                 \A i \in Listed(fs, c) :
                   Broken(fs.coll[c].entries[i].f) =>
                     Len(ErrorsFor(call.res, {EntryPath(c, fs.coll[c].entries[i])})) = 1

\* projects/a.md cannot be read, projects/b.md lacks its title: both reported.
C4_Witness ==
  /\ Returns("validateCollection")
  /\ call.arg = "projects"
  /\ Len(fs.coll["projects"].entries) = 2
  /\ Broken(fs.coll["projects"].entries[1].f)
  /\ fs.coll["projects"].entries[2].f.st = "ok"
  /\ ~Conforms("project", fs.coll["projects"].entries[2].f)
  /\ Len(call.res.errors) = 2
  /\ call.res.errors[2].field = "title"

\* The messages of the short-content and missing-asset findings.
IsShortOrAssetMessage(m) ==
  \/ m \in {"Referenced image file not found", "Referenced logo file not found"}
  \/ \E ct \in SchemaNames \cup CollectionNames :
       m = ct \o " content is very short (less than 50 characters). Consider adding more details."

\* C5: in validateAllContent short content and a missing image or logo are
\* warnings, never errors; when they are the only problems the result is valid.
C5_ShortContentAndMissingAssetAreWarnings ==
  Returns("validateAllContent") =>
    /\ \A i \in 1..Len(call.res.errors) : ~IsShortOrAssetMessage(call.res.errors[i].message)
    /\ AllClean(fs) => call.res.isValid /\ call.res.errors = <<>>

C5_Witness ==
  /\ Returns("validateAllContent")
  /\ AllClean(fs)
  /\ call.res.isValid
  /\ \E i \in 1..Len(call.res.warnings) :
       call.res.warnings[i].message = "Referenced logo file not found"
  /\ \E i \in 1..Len(call.res.warnings) :
       /\ call.res.warnings[i].field = NoField
       /\ IsShortOrAssetMessage(call.res.warnings[i].message)

\* C6: validateAllContent is invalid exactly when one of its six parts has an
\* error; its errors are the parts' errors in the order profile, skills,
\* projects, publications, experience, education; and every result of the
\* three functions has isValid = (errors is empty).
C6_InvalidIffSomePartHasErrors ==
  /\ call # NoCall => (call.res.isValid <=> call.res.errors = <<>>)
  /\ Returns("validateAllContent") =>
       /\ call.res.isValid <=> AllClean(fs)
       /\ call.res.errors =
            validateProfile(fs).errors
            \o validateSkills(fs).errors
            \o validateCollection(fs, "projects", "project").errors
            \o validateCollection(fs, "publications", "publication").errors
            \o validateCollection(fs, "experience", "experience").errors
            \o validateCollection(fs, "education", "education").errors

C6_Witness ==
  /\ Returns("validateAllContent")
  /\ ~call.res.isValid
  /\ Len(call.res.errors) >= 4
  /\ call.res.errors[1].file = profilePath
  /\ call.res.errors[Len(call.res.errors)].file = CollectionPath("education")

(***************************************************************************)
(* validateContentCompleteness                                             *)
(***************************************************************************)
\* Object.keys(v).length for the representative value of a kind
KeyCount(k) == IF k = "ok" THEN 1 ELSE 0

\* v.length >= n for a value that is an array of len elements when its kind
\* is "ok" and the number 42 (length undefined) when it is "bad"
LengthAtLeast(k, len, n) == k = "ok" /\ len >= n

Points(cond, n) == IF cond THEN n ELSE 0

\* The try block over profile/main.md; the catch adds nothing to totalScore.
ProfileScore(f) ==
  IF f.st # "ok" THEN 0
  ELSE Points(Truthy(f.fm["name"]) /\ Truthy(f.fm["title"])
              /\ Truthy(f.fm["bio"]) /\ Truthy(f.fm["email"]), 10)
       + Points(Truthy(f.fm["profileImage"]), 5)
       + Points(Truthy(f.fm["social"]) /\ KeyCount(f.fm["social"]) > 0, 3)
       + Points(f.body.len # 0 /\ f.body.len > 100, 2)

\* cat.skills && cat.skills.length >= 3, for a cat that is an object
HasThreeSkills(cat) ==
  ~cat.isNull /\ Truthy(cat.skills) /\ LengthAtLeast(cat.skills, Len(cat.items), 3)

\* data.categories.some(...) reads cat.skills of each element in turn, up to
\* the first for which the test holds: on a null element it throws a
\* TypeError.
SomeThrows(cats) ==
  \E i \in 1..Len(cats) :
    cats[i].isNull /\ \A j \in 1..(i - 1) : ~HasThreeSkills(cats[j])

\* The try block over skills/main.md.  When data.categories is truthy and no
\* array, data.categories.some is no function; when some() meets a null
\* element, cat.skills throws: either TypeError is caught before
\* totalScore += skillsScore.
SkillsScore(f) ==
  IF f.st # "ok" THEN 0
  ELSE IF ~Truthy(f.fm["categories"]) THEN 0
  ELSE IF f.fm["categories"] # "ok" THEN 0
  ELSE IF SomeThrows(f.cats) THEN 0
  ELSE Points(LengthAtLeast(f.fm["categories"], Len(f.cats), 3), 10)
       + Points(\E i \in 1..Len(f.cats) : HasThreeSkills(f.cats[i]), 5)

\* collections of validateContentCompleteness, in its order
scoreCollections == <<
  [name |-> "projects", weight |-> 25, minFiles |-> 2],
  [name |-> "experience", weight |-> 20, minFiles |-> 1],
  [name |-> "publications", weight |-> 10, minFiles |-> 1],
  [name |-> "education", weight |-> 10, minFiles |-> 1] >>

\* fs.readdirSync(collectionPath).filter(file => file.endsWith('.md')).length
CountMd(entries) == Len(SelectSeq(entries, LAMBDA e : EndsWithMd(e.name)))

\* Math.floor(weight * 0.5)
HalfWeight(weight) == (weight * 5) \div 10

\* collectionScore of one collection whose directory can be listed
CollectionScore(d, weight, minFiles) ==
  IF d.st # "dir" THEN 0
  ELSE IF CountMd(d.entries) >= minFiles THEN weight
  ELSE IF CountMd(d.entries) > 0 THEN HalfWeight(weight)
  ELSE 0

RECURSIVE CollectionsScore(_, _)
CollectionsScore(fsys, i) ==
  IF i > Len(scoreCollections) THEN 0
  ELSE CollectionScore(fsys.coll[scoreCollections[i].name],
                       scoreCollections[i].weight, scoreCollections[i].minFiles)
       + CollectionsScore(fsys, i + 1)

\* Math.round((totalScore / maxScore) * 100)
RoundPercent(total, max) == (2 * total * 100 + max) \div (2 * max)

\* fs.readdirSync runs outside any try: a path that exists and is no
\* directory makes the function throw.
validateContentCompleteness(fsys) ==
  IF \E i \in 1..Len(scoreCollections) : fsys.coll[scoreCollections[i].name].st = "notdir"
  THEN Thrown("ENOTDIR: not a directory, scandir")
  ELSE [threw |-> FALSE,
        score |-> RoundPercent(ProfileScore(fsys.profile) + SkillsScore(fsys.skills)
                               + CollectionsScore(fsys, 1), 100)]

(***************************************************************************)
(* SpecScore: validateContentCompleteness over a content tree that the     *)
(* environment changes one step at a time (at most MaxScoreEdits steps).   *)
(* last remembers the score of the report before, and whether the tree     *)
(* has only been added to since.                                           *)
(***************************************************************************)
\* A site that earns every point.
CompleteFS ==
  [InitFS EXCEPT !.skills.cats =
     [i \in 1..3 |-> Category("ok", "ok", <<ValidSkill, ValidSkill, ValidSkill>>)]]

\* A site whose skills page lists three categories of one skill each.
DraftFS == [InitFS EXCEPT !.skills.cats = [i \in 1..3 |-> ValidCategory]]

ScoreStartTrees == {EmptyFS, RoughFS, CompleteFS, DraftFS}

\* Names of the files the environment adds: two Markdown files, a hidden
\* Markdown file, a file that is no Markdown.
ScoreNamePool == NamePool \cup {<<"c", ".md">>}

ScoredKeys == {"name", "title", "bio", "email", "profileImage", "social"}

\* The changes of the skills array the score can see: a category or a skill
\* more or less, a category whose skills key goes away or holds no array.
ScoreCatsEdits(cats) ==
  (IF Len(cats) < MaxCats THEN {Append(cats, ValidCategory), Append(cats, NullCategory)} ELSE {})
  \cup (IF Len(cats) > 0 THEN {SubSeq(cats, 1, Len(cats) - 1)} ELSE {})
  \cup {[cats EXCEPT ![i].items = Append(@, ValidSkill)] :
          i \in {j \in Objects(cats) : Len(cats[j].items) < MaxSkills}}
  \cup {[cats EXCEPT ![i].items = SubSeq(@, 1, Len(@) - 1)] :
          i \in {j \in Objects(cats) : Len(cats[j].items) > 0}}
  \cup {[cats EXCEPT ![i].skills = k] : i \in Objects(cats), k \in {"absent", "bad", "ok"}}

\* Every tree one change away from t.
ScoreEdits(t) ==
  {[t EXCEPT !.profile.fm[k] = v] : k \in ScoredKeys \ {"social"}, v \in {"absent", "empty", "ok"}}
  \cup {[t EXCEPT !.profile.fm["social"] = v] : v \in Kinds}
  \cup {[t EXCEPT !.profile.st = st] : st \in {"missing", "malformed", "ok"}}
  \cup {[t EXCEPT !.profile.body = b] : b \in {Body(0, 0), Body(100, 0), Body(101, 0)}}
  \cup {[t EXCEPT !.skills.st = st] : st \in {"missing", "unreadable", "ok"}}
  \cup {[t EXCEPT !.skills.fm["categories"] = v] : v \in {"absent", "bad", "ok"}}
  \cup {[t EXCEPT !.skills.cats = c] : c \in ScoreCatsEdits(t.skills.cats)}
  \cup {[t EXCEPT !.coll[c] = d] :
          c \in CollectionNames,
          d \in {Dir("missing", <<>>), Dir("notdir", <<>>), Dir("dir", <<>>)}}
  \cup UNION {
         {[t EXCEPT !.coll[c].entries = Append(@, Entry(n, ValidFile(SchemaOfCollection(c))))] :
            n \in {m \in ScoreNamePool : t.coll[c].st = "dir" /\ Len(t.coll[c].entries) < MaxFiles
                                    /\ ~HasName(t.coll[c].entries, m)}}
         \cup {[t EXCEPT !.coll[c].entries = SubSeq(@, 1, Len(@) - 1)] :
                 x \in {y \in {1} : Len(t.coll[c].entries) > 0}}
         : c \in CollectionNames}

\* b comes from a only by adding: keys that were absent, characters of the
\* body, categories, skills, directory entries, a file or a directory that
\* was missing.
SkillGrows(a, b) ==
  /\ a.name \in {b.name, "absent"}
  /\ a.level \in {b.level, "absent"}
  /\ a.color \in {b.color, "absent"}

CategoryGrows(a, b) ==
  /\ a.isNull = b.isNull
  /\ a.name \in {b.name, "absent"}
  /\ a.skills \in {b.skills, "absent"}
  /\ Len(a.items) <= Len(b.items)
  /\ \A j \in 1..Len(a.items) : SkillGrows(a.items[j], b.items[j])

FileGrows(a, b) ==
  \/ a.st = "missing" /\ b.st = "ok"
  \/ /\ a.st = b.st
     /\ \A k \in DOMAIN a.fm : a.fm[k] \in {b.fm[k], "absent"}
     /\ a.body.len <= b.body.len
     /\ Len(a.cats) <= Len(b.cats)
     /\ \A i \in 1..Len(a.cats) : CategoryGrows(a.cats[i], b.cats[i])

DirGrows(a, b) ==
  \/ a.st = "missing" /\ b.st = "dir"
  \/ /\ a.st = b.st
     /\ Len(a.entries) <= Len(b.entries)
     /\ \A i \in 1..Len(a.entries) : a.entries[i] = b.entries[i]

Grows(a, b) ==
  /\ FileGrows(a.profile, b.profile)
  /\ FileGrows(a.skills, b.skills)
  /\ \A c \in CollectionNames : DirGrows(a.coll[c], b.coll[c])

InitScore ==
  /\ fs \in ScoreStartTrees
  /\ file = NoFile
  /\ edits = 0
  /\ call = NoCall
  /\ last = NoReport
  /\ cli = NoCli

ChangeTree ==
  /\ call = NoCall
  /\ edits < MaxScoreEdits
  /\ \E t \in ScoreEdits(fs) \ {fs} :
       /\ fs' = t
       /\ last' = [last EXCEPT !.onlyAdded = @ /\ Grows(fs, t)]
  /\ edits' = edits + 1
  /\ UNCHANGED <<file, call, cli>>

CallValidateContentCompleteness ==
  /\ call = NoCall
  /\ call' = [op |-> "validateContentCompleteness", arg |-> "",
              res |-> validateContentCompleteness(fs)]
  /\ UNCHANGED <<file, fs, edits, last, cli>>

\* The caller keeps the score of the report to compare the next one with.
KeepReport ==
  /\ call # NoCall
  /\ last' = IF call.res.threw THEN NoReport
             ELSE [score |-> call.res.score, onlyAdded |-> TRUE]
  /\ call' = NoCall
  /\ UNCHANGED <<file, fs, edits, cli>>

NextScore == ChangeTree \/ CallValidateContentCompleteness \/ KeepReport

SpecScore == InitScore /\ [][NextScore]_vars

(***************************************************************************)
(* The weights of the completeness score, as the specification states them *)
(***************************************************************************)
\* The key holds a non-empty value.
Present(f, k) == f.fm[k] \notin {"absent", "empty"}

Readable(f) == f.st = "ok"

ProfileWeights(f) ==
  IF ~Readable(f) THEN <<0, 0, 0, 0>>
  ELSE << IF \A k \in {"name", "title", "bio", "email"} : Present(f, k) THEN 10 ELSE 0,
          IF Present(f, "profileImage") THEN 5 ELSE 0,
          IF f.fm["social"] = "ok" THEN 3 ELSE 0,
          IF f.body.len > 100 THEN 2 ELSE 0 >>

SkillsWeights(f) ==
  IF ~Readable(f) \/ f.fm["categories"] # "ok" THEN <<0, 0>>
  ELSE << IF Len(f.cats) >= 3 THEN 10 ELSE 0,
          IF \E i \in 1..Len(f.cats) :
               f.cats[i].skills = "ok" /\ Len(f.cats[i].items) >= 3
          THEN 5 ELSE 0 >>

\* Number of Markdown files in the directory of a collection.
FileCount(d) == Cardinality({i \in 1..Len(d.entries) : d.entries[i].name[Len(d.entries[i].name)] = ".md"})

CollectionWeight(d, weight, minFiles) ==
  IF d.st # "dir" THEN 0
  ELSE IF FileCount(d) >= minFiles THEN weight
  ELSE IF FileCount(d) > 0 THEN weight \div 2
  ELSE 0

ExpectedScore(t) ==
  ProfileWeights(t.profile)[1] + ProfileWeights(t.profile)[2]
  + ProfileWeights(t.profile)[3] + ProfileWeights(t.profile)[4]
  + SkillsWeights(t.skills)[1] + SkillsWeights(t.skills)[2]
  + CollectionWeight(t.coll["projects"], 25, 2)
  + CollectionWeight(t.coll["experience"], 20, 1)
  + CollectionWeight(t.coll["publications"], 10, 1)
  + CollectionWeight(t.coll["education"], 10, 1)

EveryComponentFull(t) ==
  /\ ProfileWeights(t.profile) = <<10, 5, 3, 2>>
  /\ SkillsWeights(t.skills) = <<10, 5>>
  /\ CollectionWeight(t.coll["projects"], 25, 2) = 25
  /\ CollectionWeight(t.coll["experience"], 20, 1) = 20
  /\ CollectionWeight(t.coll["publications"], 10, 1) = 10
  /\ CollectionWeight(t.coll["education"], 10, 1) = 10

Scored == Returns("validateContentCompleteness") /\ ~call.res.threw

\* No element of the categories array is null.
NoNullCategory(t) == \A i \in 1..Len(t.skills.cats) : ~t.skills.cats[i].isNull

\* C9: when the content tree has only been added to since the report before,
\* the score of validateContentCompleteness is at least the score before.
C9_ScoreIsMonotonic ==
  (Scored /\ last.score >= 0 /\ last.onlyAdded) => call.res.score >= last.score

\* The score falls only where the categories array holds a null element.
ScoreIsMonotonicOverObjects ==
  (Scored /\ last.score >= 0 /\ last.onlyAdded /\ NoNullCategory(fs))
    => call.res.score >= last.score

\* C10: the score is the sum of the fixed weights of the profile, the skills
\* and the four collections, an integer from 0 to 100, and it is 100 exactly
\* when every component earns its full weight.
C10_ScoreIsSumOfWeights ==
  Scored =>
    /\ call.res.score = ExpectedScore(fs)
    /\ call.res.score \in 0..100
    /\ call.res.score = 100 <=> EveryComponentFull(fs)

\* The score is the sum of the weights where no category is null.
ScoreIsSumOfWeightsOverObjects ==
  (Scored /\ NoNullCategory(fs)) =>
    /\ call.res.score = ExpectedScore(fs)
    /\ call.res.score = 100 <=> EveryComponentFull(fs)

\* Whatever the tree holds, a score that is returned is within 0..100.
ScoreIsPercentage == Scored => call.res.score \in 0..100

(***************************************************************************)
(* The command-line script (src/unnamed/part_000).  It carries its own     *)
(* copies of the schemas, validateContentFile, validateCollection and      *)
(* validateAllContent, the same statement for statement as the library's.  *)
(*                                                                         *)
(* cli.pc      "main"       main() not yet run                             *)
(*             "validated"  watch mode: initial runValidation() done,      *)
(*                          fs.watch not yet called                        *)
(*             "watching"   fs.watch registered                            *)
(*             "returned"   main() returned, nothing keeps the loop alive  *)
(*             "exited"     the process has ended                          *)
(* cli.watch   isWatchMode                                                 *)
(* cli.exit    the exit code, -1 while the process runs                    *)
(* cli.cause   why the process ended                                       *)
(* cli.queue   change events fs.watch has not yet handed to the callback   *)
(* cli.timers  pending setTimeout(() => runValidation(), 100) callbacks,   *)
(*             oldest first, each with the filename of its event           *)
(* cli.runs    calls of runValidation so far                               *)
(* cli.ret     what the last runValidation returned ("none" if it did not) *)
(* cli.printed the last line the last runValidation printed                *)
(* cli.owed    a change to a .md file that no validation run has followed  *)
(* cli.events  change events so far                                        *)
(***************************************************************************)
\* contentDirs of getContentCounts
contentDirs == <<"projects", "publications", "experience", "education">>

\* getContentCounts: fs.readdirSync throws on a path that is no directory.
SummaryThrows(fsys) == \E i \in 1..Len(contentDirs) : fsys.coll[contentDirs[i]].st = "notdir"

Outcome(exits, ret, printed) == [exits |-> exits, ret |-> ret, printed |-> printed]

\* The catch block of runValidation.
RunCaught(isWatchMode) ==
  IF ~isWatchMode THEN Outcome(TRUE, "none", "script failed")
  ELSE Outcome(FALSE, "false", "script failed")

\* The try block of runValidation after validateAllContent returned r.
RunReported(r, isWatchMode) ==
  IF ~r.isValid
  THEN IF isWatchMode THEN Outcome(FALSE, "false", "failed")
       ELSE Outcome(TRUE, "none", "failed")
  ELSE Outcome(FALSE, "true", IF Len(r.warnings) > 0 THEN "passed with warnings" ELSE "passed")

\* As runValidation, with process.exit(1) on invalid content in either mode.
runValidationAlwaysExits(fsys, isWatchMode) ==
  IF SummaryThrows(fsys) THEN RunCaught(isWatchMode)
  ELSE With(validateAllContent(fsys), LAMBDA r :
         IF r.threw THEN RunCaught(isWatchMode)
         ELSE IF ~r.isValid THEN Outcome(TRUE, "none", "failed")
         ELSE RunReported(r, isWatchMode))

\* As runValidation, with the isWatchMode test on invalid content inverted.
runValidationInverted(fsys, isWatchMode) ==
  IF SummaryThrows(fsys) THEN RunCaught(isWatchMode)
  ELSE With(validateAllContent(fsys), LAMBDA r :
         IF r.threw THEN RunCaught(isWatchMode) ELSE RunReported(r, ~isWatchMode))

\* exits: process.exit(1) was called; ret: the value returned otherwise.
runValidation(fsys, isWatchMode) ==
  IF SummaryThrows(fsys) THEN RunCaught(isWatchMode)
  ELSE With(validateAllContent(fsys), LAMBDA r :
         IF r.threw THEN RunCaught(isWatchMode) ELSE RunReported(r, isWatchMode))

\* The process after one runValidation with outcome o.
AfterRun(c, o, cause) ==
  [c EXCEPT !.runs = @ + 1, !.ret = o.ret, !.printed = o.printed, !.owed = FALSE,
            !.pc = IF o.exits THEN "exited" ELSE @,
            !.exit = IF o.exits THEN 1 ELSE @,
            !.cause = IF o.exits THEN cause ELSE @]

\* The changes to the content the script's environment makes, with the name
\* fs.watch reports for each.
CliEdits(t) ==
  {[tree |-> [t EXCEPT !.profile = g], filename |-> <<"profile", "/", "main", ".md">>] :
     g \in Samples("profile") \cup {MissingFile("profile")}}
  \cup UNION {{[tree |-> [t EXCEPT !.coll[c].entries[1].f = g],
                filename |-> <<c, "/">> \o t.coll[c].entries[1].name] :
                 g \in {ValidFile(SchemaOfCollection(c)),
                        [ValidFile(SchemaOfCollection(c)) EXCEPT !.st = "malformed"]}} :
               c \in {d \in CollectionNames : Len(t.coll[d].entries) > 0}}
  \cup {[tree |-> [t EXCEPT !.coll[c] = d], filename |-> <<c>>] :
          c \in CollectionNames,
          d \in {Dir("missing", <<>>), Dir("notdir", <<>>), Dir("dir", <<>>)}}

\* Names fs.watch reports for a file saved without a change of content; <<>>
\* stands for the null filename some platforms report.
TouchNames == {<<"skills", "/", "main", ".md">>, <<"projects", "/", "notes", ".txt">>, <<>>}

\* filename && filename.endsWith('.md')
IsMdEvent(filename) == filename # <<>> /\ EndsWithMd(filename)

\* The content trees the environment can produce within n changes.
RECURSIVE TreesWithin(_)
TreesWithin(n) ==
  IF n = 0 THEN StartTrees
  ELSE With(TreesWithin(n - 1), LAMBDA p : p \cup UNION {{e.tree : e \in CliEdits(t)} : t \in p})

\* runValidation tabulated over the trees it can meet: the script validates
\* the same tree the same way each time it sees it.
RunTable == [t \in TreesWithin(MaxEdits) |-> [w \in BOOLEAN |-> runValidation(t, w)]]

Running == cli.pc \in {"main", "validated", "watching"}

InitCLI ==
  /\ fs \in StartTrees
  /\ file = NoFile
  /\ edits = 0
  /\ call = NoCall
  /\ last = NoReport
  /\ \E w \in BOOLEAN :
       cli = [pc |-> "main", watch |-> w, exit |-> -1, cause |-> "none",
              queue |-> <<>>, timers |-> <<>>, runs |-> 0, ret |-> "none",
              printed |-> "none", owed |-> FALSE, events |-> 0]

\* A notification is queued when the watcher is registered.
Notified(c, filename) ==
  IF c.pc = "watching"
  THEN [c EXCEPT !.queue = Append(@, filename), !.events = @ + 1,
                 !.owed = @ \/ IsMdEvent(filename)]
  ELSE c

\* The environment changes the content.  Without the watch flag the content
\* is what it is when the script starts.
SaveChange ==
  /\ Running
  /\ cli.watch \/ cli.pc = "main"
  /\ edits < MaxEdits
  /\ cli.events < MaxEvents
  /\ \E e \in {x \in CliEdits(fs) : x.tree # fs} :
       /\ fs' = e.tree
       /\ cli' = Notified(cli, e.filename)
  /\ edits' = edits + 1
  /\ UNCHANGED <<file, call, last>>

\* A file is saved with the content it had.
Touch ==
  /\ cli.pc = "watching"
  /\ cli.events < MaxEvents
  /\ \E n \in TouchNames : cli' = Notified(cli, n)
  /\ UNCHANGED <<file, fs, edits, call, last>>

\* main(), isWatchMode false: await runValidation()
MainRun ==
  /\ cli.pc = "main"
  /\ ~cli.watch
  /\ cli' = With(AfterRun(cli, RunTable[fs][FALSE], "process.exit(1)"), LAMBDA c :
              IF c.pc = "exited" THEN c ELSE [c EXCEPT !.pc = "returned"])
  /\ UNCHANGED <<file, fs, edits, call, last>>

\* Nothing is pending once main() has returned: the process ends with code 0.
ProcessEnds ==
  /\ cli.pc = "returned"
  /\ cli' = [cli EXCEPT !.pc = "exited", !.exit = 0, !.cause = "finished"]
  /\ UNCHANGED <<file, fs, edits, call, last>>

\* watchContent(): the initial validation
WatchInitialRun ==
  /\ cli.pc = "main"
  /\ cli.watch
  /\ cli' = With(AfterRun(cli, RunTable[fs][TRUE], "process.exit(1)"), LAMBDA c :
              IF c.pc = "exited" THEN c ELSE [c EXCEPT !.pc = "validated"])
  /\ UNCHANGED <<file, fs, edits, call, last>>

\* watchContent(): fs.watch(contentDir, { recursive: true }, callback).  It
\* throws when the directory is missing or the platform has no recursive
\* watching; the rejection of main() is handled nowhere and ends the process.
StartWatch ==
  /\ cli.pc = "validated"
  /\ \E works \in BOOLEAN :
       cli' = IF works THEN [cli EXCEPT !.pc = "watching"]
              ELSE [cli EXCEPT !.pc = "exited", !.exit = 1, !.cause = "fs.watch threw"]
  /\ UNCHANGED <<file, fs, edits, call, last>>

\* The callback of fs.watch, for the oldest queued notification.
WatchCallback ==
  /\ cli.pc = "watching"
  /\ cli.queue # <<>>
  /\ cli' = [cli EXCEPT !.queue = Tail(@),
                        !.timers = IF IsMdEvent(Head(cli.queue)) THEN Append(@, Head(cli.queue)) ELSE @]
  /\ UNCHANGED <<file, fs, edits, call, last>>

\* A timer set by the callback expires: runValidation()
TimerFires ==
  /\ cli.pc = "watching"
  /\ cli.timers # <<>>
  /\ cli' = AfterRun([cli EXCEPT !.timers = Tail(@)], RunTable[fs][TRUE], "process.exit(1)")
  /\ UNCHANGED <<file, fs, edits, call, last>>

NextCLI ==
  \/ SaveChange
  \/ Touch
  \/ MainRun
  \/ ProcessEnds
  \/ WatchInitialRun
  \/ StartWatch
  \/ WatchCallback
  \/ TimerFires

\* Node runs main(), the callbacks of fs.watch and expired timers: none of
\* them waits forever.
SpecCLI ==
  /\ InitCLI
  /\ [][NextCLI]_vars
  /\ WF_vars(MainRun)
  /\ WF_vars(ProcessEnds)
  /\ WF_vars(WatchInitialRun)
  /\ WF_vars(StartWatch)
  /\ WF_vars(WatchCallback)
  /\ WF_vars(TimerFires)

(***************************************************************************)
(* The exit code of the script and the life of the watching process.       *)
(***************************************************************************)
Exited == cli.pc = "exited"

\* C7: run without the watch flag the script terminates, and it exits with
\* code 1 exactly when the content is invalid or the validation run throws;
\* with valid content, warnings or none, runValidation returns true and
\* process.exit(1) is never called.
C7_BatchRunTerminatesWithExitCode ==
  /\ [](~cli.watch /\ Exited =>
          /\ cli.exit \in {0, 1}
          /\ cli.exit = 1 <=> (~AllClean(fs) \/ SummaryThrows(fs)))
  /\ [](~cli.watch /\ cli.runs > 0 /\ AllClean(fs) =>
          /\ cli.ret = "true"
          /\ cli.printed \in {"passed", "passed with warnings"}
          /\ cli.exit # 1)
  /\ (~cli.watch ~> Exited)

C7_Witness ==
  /\ ~cli.watch /\ Exited /\ cli.exit = 1
  /\ ~AllClean(fs) /\ ~SummaryThrows(fs) /\ cli.printed = "failed"

C7_WitnessThrows ==
  ~cli.watch /\ Exited /\ cli.exit = 1 /\ SummaryThrows(fs) /\ cli.printed = "script failed"

C7_WitnessWarnings ==
  ~cli.watch /\ Exited /\ cli.exit = 0 /\ cli.ret = "true" /\ cli.printed = "passed with warnings"

\* C8: in watch mode no failed or throwing validation ends the process, one
\* validation has run before the watcher is registered, and every change
\* event for a name ending in .md is eventually followed by a validation
\* run that prints its result.
C8_WatchModeKeepsValidating ==
  /\ [](cli.watch /\ Exited => cli.cause = "fs.watch threw" /\ cli.runs = 1)
  /\ [](cli.watch /\ cli.pc \in {"validated", "watching"} =>
          cli.runs >= 1 /\ cli.printed # "none")
  /\ [](cli.watch /\ cli.runs > 0 /\ cli.ret # "true" => cli.ret = "false")
  /\ (cli.owed ~> (~cli.owed /\ cli.pc = "watching" /\ cli.runs >= 2))

C8_Witness ==
  /\ cli.watch /\ cli.pc = "watching" /\ cli.events = 2 /\ cli.runs = 3
  /\ ~cli.owed /\ cli.ret = "false" /\ cli.printed = "failed"

C8_WitnessThrows ==
  cli.watch /\ cli.pc = "watching" /\ cli.runs >= 2 /\ cli.printed = "script failed"

(***************************************************************************)
(* The files one validation pass looks at.                                 *)
(***************************************************************************)
\* The paths files.forEach of validateCollection passes to validateContentFile.
CollectionValidates(fsys, c) ==
  IF fsys.coll[c].st # "dir" THEN <<>>
  ELSE With(ContentFiles(fsys.coll[c].entries), LAMBDA files :
         [i \in 1..Len(files) |-> Join(CollectionPath(c), NameStr(files[i].name))])

RECURSIVE CollectionsValidate(_, _)
CollectionsValidate(fsys, i) ==
  IF i > Len(collections) THEN <<>>
  ELSE CollectionValidates(fsys, collections[i].name) \o CollectionsValidate(fsys, i + 1)

\* The paths validateAllContent passes to validateContentFile, in call order.
Validates(fsys) == <<profilePath, skillsPath>> \o CollectionsValidate(fsys, 1)

\* The paths a run of runValidation validates: none when printContentSummary
\* throws before validateAllContent is called.
RunValidates(fsys) == IF SummaryThrows(fsys) THEN <<>> ELSE Validates(fsys)

\* The path of the file fs.watch named, relative to src/content.
EventPath(filename) == Join(ContentDir, NameStr(filename))

\* C15: watch mode is incremental: the validation run that follows a change
\* event for one content file validates the changed file and no other.
C15_WatchModeValidatesOnlyTheChangedFile ==
  [][TimerFires =>
       \A i \in 1..Len(RunValidates(fs)) : RunValidates(fs)[i] = EventPath(Head(cli.timers))]_vars

\* The run that follows a change event validates what the first run does:
\* the profile, the skills and every listed file of the four collections.
WatchRunValidatesEverything ==
  [][(TimerFires /\ ~SummaryThrows(fs)) =>
       /\ RunValidates(fs) = Validates(fs)
       /\ Len(RunValidates(fs)) >= 2]_vars

\* C24: change events are debounced: .md change events that arrive within
\* the 100 ms delay lead to a single validation run.  A timer is pending for
\* 100 ms, so two timers are pending together exactly when their events came
\* within the delay of each other, and every pending timer becomes a run.
C24_ChangeEventsAreDebounced ==
  cli.pc = "watching" => Len(cli.timers) <= 1

\* Every timer the callback sets runs a validation of its own: no timer is
\* cleared, and a run takes one timer away.
EveryTimerRuns ==
  [][/\ (WatchCallback /\ IsMdEvent(Head(cli.queue))) => Len(cli'.timers) = Len(cli.timers) + 1
     /\ TimerFires => (Len(cli'.timers) = Len(cli.timers) - 1 /\ cli'.runs = cli.runs + 1)]_vars

(***************************************************************************)
(* Build-time validation: ContentIntegrityChecker and validateForBuild,    *)
(* validateForCommit (src/utils/contentHelpers.ts).                        *)
(***************************************************************************)
\* if (data.key) { path.join(cwd, 'public', data.key); fs.existsSync(...) }:
\* nothing for a falsy value, a TypeError of path.join for a truthy value
\* that is no string.
RefOutcome(f, key, exists) ==
  IF ~Truthy(f.fm[key]) THEN "none"
  ELSE IF ~IsString(f.fm[key]) THEN "throws"
  ELSE IF exists THEN "found"
  ELSE "missing"

AssetRef(filePath, key) == [file |-> filePath, key |-> key]

\* The references of one collection file pushed with outcome which; the try
\* around the file ends at the first throw, what was pushed stays pushed.
FileRefs(f, filePath, which) ==
  IF f.st # "ok" THEN <<>>
  ELSE (IF RefOutcome(f, "image", f.imageExists) = which
        THEN <<AssetRef(filePath, "image")>> ELSE <<>>)
       \o (IF RefOutcome(f, "image", f.imageExists) # "throws"
              /\ RefOutcome(f, "logo", f.logoExists) = which
           THEN <<AssetRef(filePath, "logo")>> ELSE <<>>)

\* The profile block of checkImageReferences.
ProfileRefs(f, which) ==
  IF f.st = "ok" /\ RefOutcome(f, "profileImage", f.profileImageExists) = which
  THEN <<AssetRef(profilePath, "profileImage")>>
  ELSE <<>>

\* for (const file of files), files being every listed name ending in .md
RECURSIVE DirRefs(_, _, _, _)
DirRefs(entries, i, c, which) ==
  IF i > Len(entries) THEN <<>>
  ELSE (IF EndsWithMd(entries[i].name)
        THEN FileRefs(entries[i].f, Join(CollectionPath(c), NameStr(entries[i].name)), which)
        ELSE <<>>)
       \o DirRefs(entries, i + 1, c, which)

\* for (const dir of contentDirs)
RECURSIVE TreeRefs(_, _, _)
TreeRefs(fsys, i, which) ==
  IF i > Len(contentDirs) THEN <<>>
  ELSE (IF fsys.coll[contentDirs[i]].st = "dir"
        THEN DirRefs(fsys.coll[contentDirs[i]].entries, 1, contentDirs[i], which)
        ELSE <<>>)
       \o TreeRefs(fsys, i + 1, which)

\* fs.readdirSync stands outside every try: it throws on a path that exists
\* and is no directory.  Each reference of the model names an asset of its
\* own, so that new Set(missing) drops nothing.
checkImageReferences(fsys) ==
  IF \E i \in 1..Len(contentDirs) : fsys.coll[contentDirs[i]].st = "notdir"
  THEN [threw |-> TRUE, missing |-> <<>>, found |-> <<>>]
  ELSE [threw |-> FALSE,
        missing |-> ProfileRefs(fsys.profile, "missing") \o TreeRefs(fsys, 1, "missing"),
        found |-> ProfileRefs(fsys.profile, "found") \o TreeRefs(fsys, 1, "found")]

\* checkExternalLinks: new URL(data[field]) for the truthy strings among
\* github, demo, url, website.  The only truthy string a URL key holds in the
\* model is a well-formed URL, so invalid stays empty; fs.readdirSync throws
\* as above.
checkExternalLinks(fsys) ==
  IF \E i \in 1..Len(contentDirs) : fsys.coll[contentDirs[i]].st = "notdir"
  THEN [threw |-> TRUE, invalid |-> <<>>]
  ELSE [threw |-> FALSE, invalid |-> <<>>]

BuildOptions(failOnWarnings, checkAssets, checkLinks) ==
  [failOnWarnings |-> failOnWarnings, checkAssets |-> checkAssets, checkLinks |-> checkLinks]

\* options = {}
DefaultOptions == BuildOptions(FALSE, TRUE, FALSE)

\* assetErrors, linkErrors
CheckErrors(asked, chk, items) ==
  IF ~asked THEN 0 ELSE IF chk.threw THEN 1 ELSE Len(items)

Completed == [threw |-> FALSE, message |-> ""]

Failed(m) == [threw |-> TRUE, message |-> m]

\* As BuildVerdict, with warnings failing the build whatever failOnWarnings is.
BuildVerdictStrict(contentResult, assetErrors, linkErrors, failOnWarnings) ==
  IF ~contentResult.isValid \/ assetErrors > 0 \/ linkErrors > 0
  THEN Failed("Build validation failed due to content errors. Please fix the issues above.")
  ELSE IF Len(contentResult.warnings) > 0
  THEN Failed("Build validation failed due to content warnings. Set failOnWarnings to false to ignore warnings.")
  ELSE Completed

\* "Determine if build should fail"
BuildVerdict(contentResult, assetErrors, linkErrors, failOnWarnings) ==
  IF ~contentResult.isValid \/ assetErrors > 0 \/ linkErrors > 0
  THEN Failed("Build validation failed due to content errors. Please fix the issues above.")
  ELSE IF failOnWarnings /\ Len(contentResult.warnings) > 0
  THEN Failed("Build validation failed due to content warnings. Set failOnWarnings to false to ignore warnings.")
  ELSE Completed

validateForBuild(fsys, options) ==
  With(validateAllContent(fsys), LAMBDA contentResult :
    IF contentResult.threw THEN Failed(contentResult.message)
    ELSE BuildVerdict(contentResult,
           CheckErrors(options.checkAssets, checkImageReferences(fsys),
                       checkImageReferences(fsys).missing),
           CheckErrors(options.checkLinks, checkExternalLinks(fsys),
                       checkExternalLinks(fsys).invalid),
           options.failOnWarnings))

\* What the promise of validateForCommit settles to: rejected (threw), or
\* fulfilled with value.
Settled(threw, value) == [threw |-> threw, value |-> value]

\* As CommitAttempt, without the try/catch around validateForBuild.
CommitAttemptNoCatch(fsys) ==
  With(validateForBuild(fsys, BuildOptions(FALSE, TRUE, FALSE)), LAMBDA r :
    IF r.threw THEN Settled(TRUE, FALSE) ELSE Settled(FALSE, TRUE))

\* try { await validateForBuild({...}); return true } catch { return false }
CommitAttempt(fsys) ==
  With(validateForBuild(fsys, BuildOptions(FALSE, TRUE, FALSE)), LAMBDA r :
    IF r.threw THEN Settled(FALSE, FALSE) ELSE Settled(FALSE, TRUE))

validateForCommit(fsys) == CommitAttempt(fsys).value

(***************************************************************************)
(* SpecBuild: validateForBuild and validateForCommit over a content tree   *)
(* the environment changes (at most MaxBuildEdits changes).                *)
(***************************************************************************)
\* The files the environment writes where assets and warnings matter.
BuildSamples(f) ==
  {[f EXCEPT !.fm["image"] = "ok", !.imageExists = FALSE],
   [f EXCEPT !.fm["logo"] = "ok", !.logoExists = FALSE],
   [f EXCEPT !.fm["image"] = "bad"],
   [f EXCEPT !.body = Body(49, 0)],
   [f EXCEPT !.st = "malformed"]}

\* Every tree one change away from t.
BuildEdits(t) ==
  {[t EXCEPT !.profile.profileImageExists = FALSE],
   [t EXCEPT !.profile.fm["profileImage"] = "bad"],
   [t EXCEPT !.profile.fm["name"] = "absent"]}
  \cup UNION {{[t EXCEPT !.coll[c].entries[1].f = g] :
                 g \in BuildSamples(t.coll[c].entries[1].f)} :
               c \in {d \in {"projects", "experience"} : Len(t.coll[d].entries) > 0}}
  \cup {[t EXCEPT !.coll[c] = d] :
          c \in {"projects", "education"},
          d \in {Dir("missing", <<>>), Dir("notdir", <<>>), Dir("dir", <<>>)}}
  \cup {[t EXCEPT !.coll["publications"].entries =
           Append(@, Entry(<<".", "draft", ".md">>,
                           [ValidFile("publication") EXCEPT !.fm["image"] = "ok",
                                                            !.imageExists = FALSE]))] :
          x \in {y \in {1} : t.coll["publications"].st = "dir"
                            /\ Len(t.coll["publications"].entries) < MaxFiles
                            /\ ~HasName(t.coll["publications"].entries, <<".", "draft", ".md">>)}}

InitBuild ==
  /\ fs \in StartTrees
  /\ file = NoFile
  /\ edits = 0
  /\ call = NoCall
  /\ last = NoReport
  /\ cli = NoCli

ChangeContent ==
  /\ call = NoCall
  /\ edits < MaxBuildEdits
  /\ fs' \in BuildEdits(fs) \ {fs}
  /\ edits' = edits + 1
  /\ UNCHANGED <<file, call, last, cli>>

CallValidateForBuild ==
  /\ call = NoCall
  /\ \E failOnWarnings \in BOOLEAN, checkAssets \in BOOLEAN, checkLinks \in BOOLEAN :
       call' = [op |-> "validateForBuild",
                options |-> BuildOptions(failOnWarnings, checkAssets, checkLinks),
                res |-> validateForBuild(fs, BuildOptions(failOnWarnings, checkAssets, checkLinks))]
  /\ UNCHANGED <<file, fs, edits, last, cli>>

\* ValidationOptions of validateCLI.ts; every option defaults to false.
CliOptions(verbose, checkAssets, checkLinks, exitOnError) ==
  [verbose |-> verbose, checkAssets |-> checkAssets, checkLinks |-> checkLinks,
   exitOnError |-> exitOnError]

\* The calls validateContent makes before the exit handling, in order.
ContentSteps(o) ==
  (IF o.verbose THEN <<"printContentSummary">> ELSE <<>>)
  \o <<"validateAllContent">>
  \o (IF o.checkAssets THEN <<"checkImageReferences">> ELSE <<>>)
  \o (IF o.checkLinks THEN <<"checkExternalLinks">> ELSE <<>>)

\* What the two checks write to the console; an exception of a check is
\* caught and written too.
CheckLog(asked, chk, items, what) ==
  IF ~asked THEN <<>>
  ELSE IF chk.threw THEN <<what \o " check failed">>
  ELSE IF Len(items) > 0 THEN <<what \o ": " \o ToString(Len(items))>>
  ELSE <<>>

ContentLog(fsys, o) ==
  CheckLog(o.checkAssets, checkImageReferences(fsys), checkImageReferences(fsys).missing,
           "Asset")
  \o CheckLog(o.checkLinks, checkExternalLinks(fsys), checkExternalLinks(fsys).invalid,
              "Link")

\* One call of validateContent: the calls it made (steps), what the checks
\* wrote (log), and how it ended: the promise rejected (threw), the process
\* was ended by process.exit(1) (exits), or result was returned.
ContentRun(steps, log, threw, exits, result) ==
  [steps |-> steps, log |-> log, threw |-> threw, exits |-> exits, result |-> result]

\* As validateContent, with missing assets and a failed check counted as
\* errors by the exit handling.
validateContentAssetsFatal(fsys, o) ==
  IF o.verbose /\ SummaryThrows(fsys)
  THEN ContentRun(<<"printContentSummary">>, <<>>, TRUE, FALSE, NoCall)
  ELSE With(validateAllContent(fsys), LAMBDA result :
         IF o.exitOnError /\ (~result.isValid \/ ContentLog(fsys, o) # <<>>)
         THEN ContentRun(Append(ContentSteps(o), "process.exit(1)"), ContentLog(fsys, o),
                         FALSE, TRUE, NoCall)
         ELSE ContentRun(Append(ContentSteps(o), "return"), ContentLog(fsys, o),
                         FALSE, FALSE, result))

\* validateContent(options): printContentSummary is awaited outside any try.
validateContent(fsys, o) ==
  IF o.verbose /\ SummaryThrows(fsys)
  THEN ContentRun(<<"printContentSummary">>, <<>>, TRUE, FALSE, NoCall)
  ELSE With(validateAllContent(fsys), LAMBDA result :
         IF o.exitOnError /\ ~result.isValid
         THEN ContentRun(Append(ContentSteps(o), "process.exit(1)"), ContentLog(fsys, o),
                         FALSE, TRUE, NoCall)
         ELSE ContentRun(Append(ContentSteps(o), "return"), ContentLog(fsys, o),
                         FALSE, FALSE, result))

CallValidateContent ==
  /\ call = NoCall
  /\ \E verbose, checkAssets, checkLinks, exitOnError \in BOOLEAN :
       call' = [op |-> "validateContent",
                options |-> CliOptions(verbose, checkAssets, checkLinks, exitOnError),
                res |-> validateContent(fs, CliOptions(verbose, checkAssets, checkLinks,
                                                       exitOnError))]
  /\ UNCHANGED <<file, fs, edits, last, cli>>

\* validateForDev: false for invalid content, true otherwise; said is what
\* it writes to the console first ("" for nothing).
validateForDev(fsys) ==
  With(validateAllContent(fsys), LAMBDA result :
    IF ~result.isValid THEN [value |-> FALSE, said |-> "Content validation failed:"]
    ELSE IF Len(result.warnings) > 0
    THEN [value |-> TRUE, said |-> "Content validation passed with warnings:"]
    ELSE [value |-> TRUE, said |-> ""])

\* The values of process.env.NODE_ENV; "" stands for the unset variable.
NodeEnvs == {"production", "development", "test", ""}

\* As buildStart, without the test of NODE_ENV.
buildStartAnyEnv(fsys, nodeEnv) ==
  With(validateForDev(fsys), LAMBDA dev :
    IF ~dev.value
    THEN [threw |-> TRUE, said |-> dev.said,
          message |-> "Content validation failed. Cannot proceed with production build."]
    ELSE [threw |-> FALSE, said |-> dev.said, message |-> ""])

\* The buildStart hook of the plugin createValidationMiddleware returns.
buildStart(fsys, nodeEnv) ==
  With(validateForDev(fsys), LAMBDA dev :
    IF ~dev.value /\ nodeEnv = "production"
    THEN [threw |-> TRUE, said |-> dev.said,
          message |-> "Content validation failed. Cannot proceed with production build."]
    ELSE [threw |-> FALSE, said |-> dev.said, message |-> ""])

CallBuildStart ==
  /\ call = NoCall
  /\ \E nodeEnv \in NodeEnvs :
       call' = [op |-> "buildStart", env |-> nodeEnv, res |-> buildStart(fs, nodeEnv)]
  /\ UNCHANGED <<file, fs, edits, last, cli>>

CallValidateForCommit ==
  /\ call = NoCall
  /\ call' = [op |-> "validateForCommit", res |-> validateForCommit(fs),
              threw |-> CommitAttempt(fs).threw]
  /\ UNCHANGED <<file, fs, edits, last, cli>>

NextBuild ==
  \/ ChangeContent
  \/ CallValidateForBuild
  \/ CallValidateForCommit
  \/ CallValidateContent
  \/ CallBuildStart
  \/ Discard

SpecBuild == InitBuild /\ [][NextBuild]_vars

(***************************************************************************)
(* Assets, stated on the data alone.                                       *)
(***************************************************************************)
\* The record names an asset under key, and public/ holds no such file.
RefersToMissing(f, key, exists) == f.st = "ok" /\ f.fm[key] = "ok" /\ ~exists

\* Some record of the site (a file of a collection, hidden or not, or the
\* profile) names an image, a logo or a profile image that does not exist.
SomeAssetMissing(fsys) ==
  \/ RefersToMissing(fsys.profile, "profileImage", fsys.profile.profileImageExists)
  \/ \E c \in CollectionNames :
       /\ fsys.coll[c].st = "dir"
       /\ \E i \in 1..Len(fsys.coll[c].entries) :
            /\ EndsWithMd(fsys.coll[c].entries[i].name)
            /\ \/ RefersToMissing(fsys.coll[c].entries[i].f, "image",
                                  fsys.coll[c].entries[i].f.imageExists)
               \/ RefersToMissing(fsys.coll[c].entries[i].f, "logo",
                                  fsys.coll[c].entries[i].f.logoExists)

\* C11: when the content has no schema errors and names an image, a logo or
\* a profile image that does not exist under public/, validateForBuild with
\* default options completes without throwing and validateForCommit returns
\* true.
C11_MissingAssetIsNotFatalForBuild ==
  (AllClean(fs) /\ SomeAssetMissing(fs)) =>
    /\ (Returns("validateForBuild") /\ call.options = DefaultOptions) => ~call.res.threw
    /\ Returns("validateForCommit") => call.res

C18_WitnessCompletes ==
  /\ Returns("validateForBuild")
  /\ AllClean(fs) /\ ~SomeAssetMissing(fs)
  /\ Len(validateAllContent(fs).warnings) > 0
  /\ ~call.options.failOnWarnings
  /\ call.res = Completed

C18_WitnessErrors ==
  Returns("validateForBuild") /\ ~AllClean(fs) /\ ~call.options.failOnWarnings /\ call.res.threw

\* The asset check of validateForBuild counts nothing: checkImageReferences
\* returns and lists no missing asset.
AssetCheckClean(fsys) ==
  ~checkImageReferences(fsys).threw /\ checkImageReferences(fsys).missing = <<>>

C21_WitnessFails ==
  /\ Returns("validateForCommit")
  /\ ~validateAllContent(fs).isValid
  /\ ~call.res
  /\ ~call.threw

\* The position of step x among the calls of a run, 0 if it was not made.
StepAt(steps, x) ==
  IF \E i \in 1..Len(steps) : steps[i] = x
  THEN CHOOSE i \in 1..Len(steps) : steps[i] = x
  ELSE 0

C22_WitnessMissingAsset ==
  /\ Returns("validateContent")
  /\ call.options.exitOnError /\ call.options.checkAssets
  /\ validateAllContent(fs).isValid
  /\ Len(checkImageReferences(fs).missing) > 0
  /\ ~call.res.exits
  /\ call.res.result.isValid

\* With verbose set, a content directory that is a plain file makes
\* printContentSummary throw: validateContent rejects before it validates.
VerboseSummaryRejects ==
  Returns("validateContent") =>
    (call.res.threw <=> (call.options.verbose /\ SummaryThrows(fs)))

\* C23: the buildStart hook throws if and only if validateAllContent reports
\* isValid = false and NODE_ENV equals 'production'; with any other NODE_ENV
\* invalid content is reported and the hook returns; warnings never make it
\* throw.
C23_BuildStartThrowsOnlyInProduction ==
  Returns("buildStart") =>
    /\ call.res.threw <=> (~validateAllContent(fs).isValid /\ call.env = "production")
    /\ (~validateAllContent(fs).isValid /\ call.env # "production") =>
         /\ ~call.res.threw
         /\ call.res.said = "Content validation failed:"
    /\ validateAllContent(fs).isValid => ~call.res.threw

\* Invalid content outside production: reported, no exception.
C23_Witness ==
  /\ Returns("buildStart")
  /\ call.env = "development"
  /\ ~validateAllContent(fs).isValid
  /\ ~call.res.threw
  /\ call.res.said = "Content validation failed:"

C23_WitnessThrows ==
  Returns("buildStart") /\ call.env = "production" /\ call.res.threw

C23_WitnessWarnings ==
  /\ Returns("buildStart")
  /\ call.env = "production"
  /\ Len(validateAllContent(fs).warnings) > 0
  /\ ~call.res.threw
  /\ call.res.said = "Content validation passed with warnings:"

(***************************************************************************)
(* Short content in the collections (checked under Spec).                  *)
(***************************************************************************)
\* The body, trimmed, has fewer than 50 characters.
ShortBody(f) == f.body.len - f.body.pad < 50

IsShortMessage(m) ==
  \E t \in SchemaNames \cup CollectionNames :
    m = t \o " content is very short (less than 50 characters). Consider adding more details."

ShortWarned(res, path) ==
  \E i \in 1..Len(res.warnings) :
    res.warnings[i].file = path /\ IsShortMessage(res.warnings[i].message)

\* The collections the outstanding call went over.
CollectionsCalled ==
  IF Returns("validateAllContent") THEN CollectionNames
  ELSE IF Returns("validateCollection") THEN {call.arg}
  ELSE {}

\* Every file of collection c that is read, parsed and short is warned about.
ShortFilesWarned(c) ==
  \A i \in Listed(fs, c) :
    (fs.coll[c].st = "dir" /\ fs.coll[c].entries[i].f.st = "ok"
       /\ ShortBody(fs.coll[c].entries[i].f))
      => ShortWarned(call.res, EntryPath(c, fs.coll[c].entries[i]))

\* C12: for every .md file of any of the four collections whose body,
\* trimmed, has fewer than 50 characters, the warnings of validateCollection
\* and of validateAllContent hold a short-content warning for that file.
C12_ShortContentIsWarned == \A c \in CollectionsCalled : ShortFilesWarned(c)

\* The warning is given where the name of the collection is also the name
\* of a content type.
ShortContentIsWarnedInExperienceAndEducation ==
  \A c \in CollectionsCalled \cap {"experience", "education"} : ShortFilesWarned(c)

\* validateCollection never gives the warning for projects and publications.
ShortContentIsNotWarnedInProjectsAndPublications ==
  \A c \in CollectionsCalled \cap {"projects", "publications"} :
    \A n \in NamePool : ~ShortWarned(call.res, Join(CollectionPath(c), NameStr(n)))

(***************************************************************************)
(* checkMissingContent and generateValidationReport                        *)
(* (src/utils/contentHelpers.ts).                                          *)
(***************************************************************************)
\* fs.readdirSync(collectionPath).filter(file => file.endsWith('.md')), the
\* listing checkMissingContent and validateContentCompleteness count.
MdFiles(entries) == SelectSeq(entries, LAMBDA e : EndsWithMd(e.name))

\* requiredFiles.forEach: fs.existsSync(fullPath)
RequiredFound(fsys) ==
  (IF fsys.profile.st # "missing" THEN <<"Profile">> ELSE <<>>)
  \o (IF fsys.skills.st # "missing" THEN <<"Skills">> ELSE <<>>)

RequiredMissing(fsys) ==
  (IF fsys.profile.st = "missing" THEN <<"Profile">> ELSE <<>>)
  \o (IF fsys.skills.st = "missing" THEN <<"Skills">> ELSE <<>>)

\* collections of checkMissingContent, in its order
missingCollections == <<"projects", "publications", "experience", "education">>

\* found.push(`${collection} (${files.length} files)`), as the pair it prints
FoundCollection(c, n) == [name |-> c, files |-> n]

RECURSIVE CollectionsFound(_, _)
CollectionsFound(fsys, i) ==
  IF i > Len(missingCollections) THEN <<>>
  ELSE (IF fsys.coll[missingCollections[i]].st = "dir"
           /\ Len(MdFiles(fsys.coll[missingCollections[i]].entries)) # 0
        THEN <<FoundCollection(missingCollections[i],
                               Len(MdFiles(fsys.coll[missingCollections[i]].entries)))>>
        ELSE <<>>)
       \o CollectionsFound(fsys, i + 1)

RECURSIVE CollectionsMissing(_, _)
CollectionsMissing(fsys, i) ==
  IF i > Len(missingCollections) THEN <<>>
  ELSE (IF fsys.coll[missingCollections[i]].st = "missing"
        THEN <<missingCollections[i] \o " directory">>
        ELSE IF Len(MdFiles(fsys.coll[missingCollections[i]].entries)) = 0
        THEN <<missingCollections[i] \o " content">>
        ELSE <<>>)
       \o CollectionsMissing(fsys, i + 1)

\* fs.readdirSync stands outside any try.
checkMissingContent(fsys) ==
  IF \E i \in 1..Len(missingCollections) : fsys.coll[missingCollections[i]].st = "notdir"
  THEN [threw |-> TRUE, message |-> "ENOTDIR: not a directory, scandir"]
  ELSE [threw |-> FALSE,
        missing |-> RequiredMissing(fsys) \o CollectionsMissing(fsys, 1),
        found |-> RequiredFound(fsys),
        foundCollections |-> CollectionsFound(fsys, 1)]

\* The report, as the values its sections are printed from.
generateValidationReport(fsys) ==
  With(validateAllContent(fsys), LAMBDA validationResult :
    IF validationResult.threw THEN [threw |-> TRUE, message |-> validationResult.message]
    ELSE IF checkMissingContent(fsys).threw
    THEN [threw |-> TRUE, message |-> checkMissingContent(fsys).message]
    ELSE IF validateContentCompleteness(fsys).threw
    THEN [threw |-> TRUE, message |-> validateContentCompleteness(fsys).message]
    ELSE [threw |-> FALSE,
          passed |-> validationResult.isValid,
          score |-> validateContentCompleteness(fsys).score,
          errors |-> validationResult.errors,
          warnings |-> validationResult.warnings,
          missing |-> checkMissingContent(fsys).missing,
          foundCollections |-> checkMissingContent(fsys).foundCollections])

(***************************************************************************)
(* SpecReport: the report generator over a content tree whose collection   *)
(* directories the environment changes.                                    *)
(***************************************************************************)
CallCheckMissingContent ==
  /\ call = NoCall
  /\ call' = [op |-> "checkMissingContent", res |-> checkMissingContent(fs)]
  /\ UNCHANGED <<file, fs, edits, last, cli>>

CallGenerateValidationReport ==
  /\ call = NoCall
  /\ call' = [op |-> "generateValidationReport", res |-> generateValidationReport(fs)]
  /\ UNCHANGED <<file, fs, edits, last, cli>>

NextReport ==
  \/ EditCollection
  \/ CallCheckMissingContent
  \/ CallGenerateValidationReport
  \/ Discard

SpecReport == Init /\ [][NextReport]_vars

\* The names in a listing.
NamesOf(files) == {files[i].name : i \in 1..Len(files)}

\* The number of files the report gives for collection c, 0 if it gives none.
FilesReported(res, c) ==
  IF \E i \in 1..Len(res.foundCollections) : res.foundCollections[i].name = c
  THEN (CHOOSE x \in {res.foundCollections[i] : i \in 1..Len(res.foundCollections)} :
          x.name = c).files
  ELSE 0

\* C13: for each collection directory, the files validateContentCompleteness
\* and checkMissingContent count are exactly the files validateCollection
\* validates.
C13_ScorerAndValidatorSeeTheSameFiles ==
  (call.op \in {"checkMissingContent", "generateValidationReport"} /\ ~call.res.threw) =>
    \A c \in CollectionNames :
      fs.coll[c].st = "dir" =>
        /\ NamesOf(MdFiles(fs.coll[c].entries)) = NamesOf(ContentFiles(fs.coll[c].entries))
        /\ CountMd(fs.coll[c].entries) = Len(ContentFiles(fs.coll[c].entries))
        /\ FilesReported(call.res, c) = Len(ContentFiles(fs.coll[c].entries))

\* The two listings differ by the hidden Markdown files and by nothing else.
ListingsDifferByHiddenFiles ==
  (call.op \in {"checkMissingContent", "generateValidationReport"} /\ ~call.res.threw) =>
    \A c \in CollectionNames :
      fs.coll[c].st = "dir" =>
        /\ NamesOf(MdFiles(fs.coll[c].entries)) \ NamesOf(ContentFiles(fs.coll[c].entries))
             = {n \in NamesOf(fs.coll[c].entries) : EndsWithMd(n) /\ StartsWithDot(n)}
        /\ NamesOf(ContentFiles(fs.coll[c].entries)) \subseteq NamesOf(MdFiles(fs.coll[c].entries))
        /\ FilesReported(call.res, c) = Len(MdFiles(fs.coll[c].entries))

(***************************************************************************)
(* The schemas of the Astro content config (src/content/config.ts), in the *)
(* encoding of the validator's schemas, with the rules the config adds:    *)
(*         anystr  z.string()                                              *)
(*         email   z.string().email()                                      *)
(*         arr     z.array(z.string())                                     *)
(*         optnum  z.number().optional()                                   *)
(*         optobjs z.array(z.object({...})).optional()                     *)
(*         anycats the categories array of the config's skillsSchema       *)
(***************************************************************************)
configProfileSchema == <<
  F("name", "anystr", ""),
  F("title", "anystr", ""),
  F("bio", "anystr", ""),
  F("email", "email", ""),
  F("location", "anystr", ""),
  F("profileImage", "anystr", ""),
  F("social", "obj", "") >>

configSkillsSchema == <<
  F("categories", "anycats", "") >>

configProjectSchema == <<
  F("title", "anystr", ""),
  F("description", "anystr", ""),
  F("image", "anystr", ""),
  F("github", "opturl", ""),
  F("demo", "opturl", ""),
  F("featured", "deflt", ""),
  F("order", "deflt", ""),
  F("tags", "arr", ""),
  F("startDate", "optstr", ""),
  F("endDate", "optstr", ""),
  F("award", "optstr", ""),
  F("hackathon", "optstr", ""),
  F("teamSize", "optnum", ""),
  F("paper", "opturl", ""),
  F("paperTitle", "optstr", ""),
  F("venue", "optstr", "") >>

configPublicationSchema == <<
  F("title", "anystr", ""),
  F("authors", "arr", ""),
  F("venue", "anystr", ""),
  F("year", "num", ""),
  F("url", "opturl", ""),
  F("type", "enum", ""),
  F("doi", "optstr", ""),
  F("abstract", "optstr", "") >>

configExperienceSchema == <<
  F("company", "anystr", ""),
  F("position", "anystr", ""),
  F("startDate", "anystr", ""),
  F("endDate", "optstr", ""),
  F("location", "anystr", ""),
  F("logo", "optstr", ""),
  F("website", "opturl", ""),
  F("achievements", "arr", ""),
  F("technologies", "optarr", "") >>

configEducationSchema == <<
  F("institution", "anystr", ""),
  F("degree", "anystr", ""),
  F("field", "anystr", ""),
  F("startDate", "anystr", ""),
  F("endDate", "optstr", ""),
  F("location", "anystr", ""),
  F("logo", "optstr", ""),
  F("gpa", "optstr", ""),
  F("honors", "optarr", ""),
  F("coursework", "optarr", ""),
  F("thesis", "optstr", ""),
  F("advisors", "optobjs", "") >>

ConfigSchemaOf(s) ==
  CASE s = "profile" -> configProfileSchema
    [] s = "skills" -> configSkillsSchema
    [] s = "project" -> configProjectSchema
    [] s = "publication" -> configPublicationSchema
    [] s = "experience" -> configExperienceSchema
    [] s = "education" -> configEducationSchema

\* Whether zod accepts the representative value of kind k under a rule of
\* the config.
ConfigAccepts(rule, k) ==
  CASE rule = "anystr" -> k \in {"empty", "ok"}
    [] rule = "email" -> k = "ok"
    [] rule = "arr" -> k \in {"hollow", "ok"}
    [] rule = "optnum" -> k \in {"absent", "ok"}
    [] rule = "optobjs" -> k \in {"absent", "hollow", "ok"}
    [] rule = "anycats" -> k \in {"hollow", "ok"}
    [] OTHER -> Accepts(rule, k)

\* z.object({ name: z.string(), level: z.enum([...]), color: z.string() })
ConfigAcceptsSkill(sk) ==
  /\ ConfigAccepts("anystr", sk.name)
  /\ ConfigAccepts("enum", sk.level)
  /\ ConfigAccepts("anystr", sk.color)

\* z.object({ name: z.string(), skills: z.array(...) })
ConfigAcceptsCategory(cat) ==
  /\ ~cat.isNull
  /\ ConfigAccepts("anystr", cat.name)
  /\ cat.skills = "ok"
  /\ \A j \in 1..Len(cat.items) : ConfigAcceptsSkill(cat.items[j])

ConfigAcceptsField(f, k, cats) ==
  /\ ConfigAccepts(f.rule, k)
  /\ (f.rule = "anycats" /\ k = "ok") => \A c \in 1..Len(cats) : ConfigAcceptsCategory(cats[c])

\* schema.safeParse(frontmatter).success for the schema of the config
configAccepts(schema, fm, cats) ==
  \A i \in 1..Len(schema) : ConfigAcceptsField(schema[i], fm[schema[i].name], cats)

(***************************************************************************)
(* SpecSchema: one front-matter record parsed by the validator's schema    *)
(* and by the config's.  The record starts valid for both and the          *)
(* environment changes at most MaxSchemaEdits of its keys.                 *)
(***************************************************************************)
\* The keys of a record: those of either schema, and image and logo.
WideKeys(s) == Keys(s) \cup FieldNames(ConfigSchemaOf(s))

WideFile(s) ==
  [ValidFile(s) EXCEPT !.fm = [k \in WideKeys(s) |->
                                 IF k \in FieldNames(SchemaOf(s)) THEN "ok" ELSE "absent"]]

InitSchema ==
  /\ file \in {[schema |-> s, f |-> WideFile(s)] : s \in SchemaNames}
  /\ fs = NoFS
  /\ edits = 0
  /\ call = NoCall
  /\ last = NoReport
  /\ cli = NoCli

SetKey ==
  /\ call = NoCall
  /\ edits < MaxSchemaEdits
  /\ \/ \E k \in DOMAIN file.f.fm, v \in Kinds :
          /\ file.f.fm[k] # v
          /\ file' = [file EXCEPT !.f.fm[k] = v]
     \/ /\ file.schema = "skills"
        /\ \E c \in CatsEdits(file.f.cats) \ {file.f.cats} : file' = [file EXCEPT !.f.cats = c]
  /\ edits' = edits + 1
  /\ UNCHANGED <<fs, call, last, cli>>

ParseWithBoth ==
  /\ call = NoCall
  /\ call' = [op |-> "safeParse",
              res |-> [validator |-> safeParse(SchemaOf(file.schema), file.f.fm, file.f.cats) = <<>>,
                       config |-> configAccepts(ConfigSchemaOf(file.schema), file.f.fm, file.f.cats)]]
  /\ UNCHANGED <<file, fs, edits, last, cli>>

NextSchema == SetKey \/ ParseWithBoth \/ Discard

SpecSchema == InitSchema /\ [][NextSchema]_vars

\* C14: for each of the six content types, a front-matter record is accepted
\* by the validator's schema if and only if the schema of the Astro content
\* config accepts it.
C14_ValidatorUsesTheConfigSchemas ==
  Returns("safeParse") => (call.res.validator <=> call.res.config)

\* The keys only the config's schema knows hold nothing.
ConfigOnlyKeysAbsent ==
  \A k \in FieldNames(ConfigSchemaOf(file.schema)) \ FieldNames(SchemaOf(file.schema)) :
    file.f.fm[k] = "absent"

\* On the keys both schemas know the validator is the stricter one.
ValidatorIsStricterOnSharedKeys ==
  (Returns("safeParse") /\ ConfigOnlyKeysAbsent /\ call.res.validator) => call.res.config

(***************************************************************************)
(* SpecPass: validation passes over a content tree the environment edits   *)
(* between them.  Every call validateAllContent makes on Node's fs module  *)
(* is recorded, and `last` keeps the tree and the result of the pass       *)
(* before.                                                                 *)
(***************************************************************************)
FsCall(op, path) == [op |-> op, path |-> path]

\* path.join(process.cwd(), 'public', frontmatter[key])
AssetPath(filePath, key) == Join(Join(Cwd, "public"), key \o " of " \o filePath)

\* if (frontmatter[key] && typeof frontmatter[key] === 'string') fs.existsSync(...)
AssetFsCalls(f, filePath, key) ==
  IF Truthy(f.fm[key]) /\ IsString(f.fm[key])
  THEN <<FsCall("existsSync", AssetPath(filePath, key))>>
  ELSE <<>>

\* As FileFsCalls, with the file read once for its front matter and once
\* more for its body.
FileFsCallsReadsBodyAgain(f, filePath) ==
  <<FsCall("existsSync", filePath)>>
  \o (IF f.st = "missing" THEN <<>>
      ELSE <<FsCall("readFileSync", filePath)>>
           \o (IF ReadError(f) # "" THEN <<>>
               ELSE <<FsCall("readFileSync", filePath)>>
                    \o AssetFsCalls(f, filePath, "image")
                    \o AssetFsCalls(f, filePath, "logo")))

\* The calls of validateContentFile on fs: existsSync, then one readFileSync
\* of a file that exists, then the asset checks unless the read or the parse
\* threw.
FileFsCalls(f, filePath) ==
  <<FsCall("existsSync", filePath)>>
  \o (IF f.st = "missing" THEN <<>>
      ELSE <<FsCall("readFileSync", filePath)>>
           \o (IF ReadError(f) # "" THEN <<>>
               ELSE AssetFsCalls(f, filePath, "image") \o AssetFsCalls(f, filePath, "logo")))

RECURSIVE FilesFsCalls(_, _, _)
FilesFsCalls(files, i, c) ==
  IF i > Len(files) THEN <<>>
  ELSE FileFsCalls(files[i].f, Join(CollectionPath(c), NameStr(files[i].name)))
       \o FilesFsCalls(files, i + 1, c)

\* The calls of validateCollection on fs.
CollectionFsCalls(fsys, c) ==
  <<FsCall("existsSync", CollectionPath(c))>>
  \o (IF fsys.coll[c].st = "missing" THEN <<>>
      ELSE <<FsCall("readdirSync", CollectionPath(c))>>
           \o (IF fsys.coll[c].st = "notdir" THEN <<>>
               ELSE FilesFsCalls(ContentFiles(fsys.coll[c].entries), 1, c)))

RECURSIVE CollectionsFsCalls(_, _)
CollectionsFsCalls(fsys, i) ==
  IF i > Len(collections) THEN <<>>
  ELSE CollectionFsCalls(fsys, collections[i].name) \o CollectionsFsCalls(fsys, i + 1)

\* The calls of validateAllContent on fs, in order.
PassFsCalls(fsys) ==
  FileFsCalls(fsys.profile, profilePath)
  \o FileFsCalls(fsys.skills, skillsPath)
  \o CollectionsFsCalls(fsys, 1)

\* The functions of fs that leave the filesystem as it is.
ReadOnlyFsOps == {"existsSync", "readFileSync", "readdirSync"}

NoPass == [tree |-> NoFS, res |-> NoCall]

InitPass ==
  /\ fs \in StartTrees
  /\ file = NoFile
  /\ edits = 0
  /\ call = NoCall
  /\ last = NoPass
  /\ cli = NoCli

\* One call of validateAllContent(); the module keeps nothing between calls,
\* the caller remembers what the pass returned.
ValidationPass ==
  /\ call = NoCall
  /\ call' = [op |-> "validateAllContent", arg |-> "",
              res |-> validateAllContent(fs),
              fsCalls |-> PassFsCalls(fs),
              before |-> last]
  /\ last' = [tree |-> fs, res |-> validateAllContent(fs)]
  /\ UNCHANGED <<file, fs, edits, cli>>

NextPass ==
  \/ EditProfile
  \/ EditSkills
  \/ EditCollection
  \/ ValidationPass
  \/ Discard

SpecPass == InitPass /\ [][NextPass]_vars

\* The paths one pass called fs.readFileSync on, in order.
ReadsOf(calls) == SelectSeq(calls, LAMBDA x : x.op = "readFileSync")

ReadsEachFileAtMostOnce(calls) ==
  \A i, j \in 1..Len(ReadsOf(calls)) : ReadsOf(calls)[i].path = ReadsOf(calls)[j].path => i = j

NoMdFiles(d) == \A i \in 1..Len(d.entries) : ~EndsWithMd(d.entries[i].name)

\* C17: validateCollection on an existing directory with no .md files
\* returns isValid = true with exactly one warning and no errors; on a
\* directory that does not exist it returns isValid = false with exactly one
\* error and no warnings, and validates no file.
C17_EmptyIsWarningMissingIsError ==
  Returns("validateCollection") =>
    /\ (fs.coll[call.arg].st = "dir" /\ NoMdFiles(fs.coll[call.arg])) =>
         /\ call.res.isValid
         /\ Len(call.res.warnings) = 1
         /\ call.res.errors = <<>>
    /\ fs.coll[call.arg].st = "missing" =>
         /\ ~call.res.isValid
         /\ Len(call.res.errors) = 1
         /\ call.res.warnings = <<>>
         /\ CollectionValidates(fs, call.arg) = <<>>
         /\ ReadsOf(CollectionFsCalls(fs, call.arg)) = <<>>

\* A directory that holds a file, none of them Markdown.
C17_Witness ==
  /\ Returns("validateCollection")
  /\ fs.coll[call.arg].st = "dir"
  /\ fs.coll[call.arg].entries # <<>>
  /\ NoMdFiles(fs.coll[call.arg])
  /\ call.res.warnings[1].message = "No content files found in " \o call.arg \o " collection"

C17_WitnessMissing ==
  /\ Returns("validateCollection")
  /\ fs.coll[call.arg].st = "missing"
  /\ call.res.errors[1].message = "Collection directory not found: " \o call.arg

(***************************************************************************)
(* ValidationErrorCollector (errorHandling.ts).  `last` is one collector:  *)
(*   errors, warnings  its two private arrays                              *)
(*   log               the calls of addError, addWarning and clear made on *)
(*                     it since construction, oldest first (history only,  *)
(*                     no field of the class)                              *)
(***************************************************************************)
\* { file, message, field, severity }
CollectorEntry(f, m, fld, severity) ==
  [file |-> f, message |-> m, field |-> fld, severity |-> severity]

\* As addWarning, pushing to the errors.
addWarningToErrors(c, f, m, fld) ==
  [c EXCEPT !.errors = Append(@, CollectorEntry(f, m, fld, "warning"))]

addError(c, f, m, fld) ==
  [c EXCEPT !.errors = Append(@, CollectorEntry(f, m, fld, "error"))]

addWarning(c, f, m, fld) ==
  [c EXCEPT !.warnings = Append(@, CollectorEntry(f, m, fld, "warning"))]

hasErrors(c) == Len(c.errors) > 0

hasWarnings(c) == Len(c.warnings) > 0

getResult(c) == [isValid |-> Len(c.errors) = 0, errors |-> c.errors, warnings |-> c.warnings]

clear(c) == [c EXCEPT !.errors = <<>>, !.warnings = <<>>]

\* new ValidationErrorCollector()
NewCollector == [errors |-> <<>>, warnings |-> <<>>, log |-> <<>>]

\* The arguments the callers pass; field is optional.
CollectorFiles == {"a.md", "b.md"}

CollectorFields == {NoField, "title"}

Logged(c, m, f, fld) == [c EXCEPT !.log = Append(@, [m |-> m, file |-> f, field |-> fld])]

InitCollector ==
  /\ last = NewCollector
  /\ file = NoFile
  /\ fs = NoFS
  /\ edits = 0
  /\ call = NoCall
  /\ cli = NoCli

AddError ==
  /\ call = NoCall
  /\ Len(last.log) < MaxCollectorCalls
  /\ \E f \in CollectorFiles, fld \in CollectorFields :
       last' = Logged(addError(last, f, "invalid", fld), "addError", f, fld)
  /\ UNCHANGED <<file, fs, edits, call, cli>>

AddWarning ==
  /\ call = NoCall
  /\ Len(last.log) < MaxCollectorCalls
  /\ \E f \in CollectorFiles, fld \in CollectorFields :
       last' = Logged(addWarning(last, f, "doubtful", fld), "addWarning", f, fld)
  /\ UNCHANGED <<file, fs, edits, call, cli>>

Clear ==
  /\ call = NoCall
  /\ Len(last.log) < MaxCollectorCalls
  /\ last' = Logged(clear(last), "clear", "", NoField)
  /\ UNCHANGED <<file, fs, edits, call, cli>>

CallHasErrors ==
  /\ call = NoCall
  /\ call' = [op |-> "hasErrors", res |-> hasErrors(last)]
  /\ UNCHANGED <<file, fs, edits, last, cli>>

CallHasWarnings ==
  /\ call = NoCall
  /\ call' = [op |-> "hasWarnings", res |-> hasWarnings(last)]
  /\ UNCHANGED <<file, fs, edits, last, cli>>

CallGetResult ==
  /\ call = NoCall
  /\ call' = [op |-> "getResult", res |-> getResult(last)]
  /\ UNCHANGED <<file, fs, edits, last, cli>>

\* `  - ${e.file}${e.field ? ` (${e.field})` : ''}: ${e.message}`
EntryLine(x) ==
  "  - " \o x.file \o (IF x.field = NoField THEN "" ELSE " (" \o x.field \o ")")
  \o ": " \o x.message

RECURSIVE JoinLines(_, _)
\* entries.map(EntryLine).join('\n'), from the i-th entry on
JoinLines(entries, i) ==
  IF i > Len(entries) THEN ""
  ELSE EntryLine(entries[i]) \o (IF i < Len(entries) THEN "\n" ELSE "")
       \o JoinLines(entries, i + 1)

errorMessage(result) ==
  "Content validation failed with " \o ToString(Len(result.errors)) \o " error(s):\n"
  \o JoinLines(result.errors, 1)

warningMessage(result) ==
  "Found " \o ToString(Len(result.warnings)) \o " warning(s):\n"
  \o JoinLines(result.warnings, 1)

\* What one call did: threw createContentError(message), or returned after
\* writing errorLog with console.error and warnLog with console.warn ("" for
\* nothing written).
Handled(threw, message, errorLog, warnLog) ==
  [threw |-> threw, message |-> message, errorLog |-> errorLog, warnLog |-> warnLog]

\* The prefixes of the two console lines (a cross mark and a warning sign
\* in the source).
ErrorMark == "[x] "

WarnMark == "[!]  "

\* After the errors: if (result.warnings.length > 0) console.warn(...)
WarnLog(result) == IF Len(result.warnings) > 0 THEN WarnMark \o warningMessage(result) ELSE ""

\* As handleValidationResult, throwing on errors whatever throwOnError is.
handleValidationResultAlwaysThrows(result, throwOnError) ==
  IF Len(result.errors) > 0
  THEN Handled(TRUE, errorMessage(result), "", "")
  ELSE Handled(FALSE, "", "", WarnLog(result))

handleValidationResult(result, throwOnError) ==
  IF Len(result.errors) > 0
  THEN IF throwOnError
       THEN Handled(TRUE, errorMessage(result), "", "")
       ELSE Handled(FALSE, "", ErrorMark \o errorMessage(result), WarnLog(result))
  ELSE Handled(FALSE, "", "", WarnLog(result))

\* The arguments after result: none (throwOnError = false), or throwOnError.
ThrowOnErrorOf(args) == IF args = <<>> THEN FALSE ELSE args[1]

\* handleValidationResult(collector.getResult()), with or without throwOnError
CallHandleValidationResult ==
  /\ call = NoCall
  /\ \E args \in {<<>>, <<FALSE>>, <<TRUE>>} :
       call' = [op |-> "handleValidationResult", args |-> args,
                res |-> handleValidationResult(getResult(last), ThrowOnErrorOf(args))]
  /\ UNCHANGED <<file, fs, edits, last, cli>>

NextCollector ==
  \/ CallHandleValidationResult
  \/ AddError
  \/ AddWarning
  \/ Clear
  \/ CallHasErrors
  \/ CallHasWarnings
  \/ CallGetResult
  \/ Discard

SpecCollector == InitCollector /\ [][NextCollector]_vars

\* The calls logged after the last clear.
RECURSIVE SinceClear(_)
SinceClear(log) ==
  IF log = <<>> THEN <<>>
  ELSE IF log[Len(log)].m = "clear" THEN <<>>
  ELSE Append(SinceClear(SubSeq(log, 1, Len(log) - 1)), log[Len(log)])

CalledSinceClear(log, m) == \E i \in 1..Len(SinceClear(log)) : SinceClear(log)[i].m = m

\* The entries the calls of method m since the last clear describe, in call
\* order.
EntriesCalled(log, m, message, severity) ==
  With(SelectSeq(SinceClear(log), LAMBDA x : x.m = m), LAMBDA calls :
    [i \in 1..Len(calls) |-> CollectorEntry(calls[i].file, message, calls[i].field, severity)])

\* C19: after any sequence of addError, addWarning and clear: isValid of
\* getResult() holds iff addError was not called since construction or the
\* last clear; hasErrors() is the negation of isValid; hasWarnings() holds iff
\* addWarning was called since the last clear; addWarning leaves isValid
\* as it is; errors and warnings hold the entries in call order, with
\* severity 'error' and 'warning'.
C19_CollectorReflectsCallsSinceClear ==
  /\ [](Returns("getResult") =>
          /\ call.res.isValid <=> ~CalledSinceClear(last.log, "addError")
          /\ call.res.isValid <=> ~hasErrors(last)
          /\ call.res.errors = EntriesCalled(last.log, "addError", "invalid", "error")
          /\ call.res.warnings = EntriesCalled(last.log, "addWarning", "doubtful", "warning"))
  /\ [](Returns("hasErrors") =>
          (call.res <=> CalledSinceClear(last.log, "addError")))
  /\ [](Returns("hasWarnings") =>
          (call.res <=> CalledSinceClear(last.log, "addWarning")))
  /\ [][AddWarning => getResult(last').isValid = getResult(last).isValid]_vars

\* getResult() after addError, clear, addWarning: valid, with one warning.
C19_Witness ==
  /\ Returns("getResult")
  /\ Len(last.log) = 3
  /\ last.log[1].m = "addError" /\ last.log[2].m = "clear" /\ last.log[3].m = "addWarning"
  /\ call.res.isValid
  /\ Len(call.res.warnings) = 1

C19_WitnessInvalid ==
  /\ Returns("getResult")
  /\ ~call.res.isValid
  /\ Len(call.res.errors) = 2
  /\ call.res.errors[1].file # call.res.errors[2].file
  /\ Len(call.res.warnings) = 1

\* C20: handleValidationResult throws if and only if throwOnError is true
\* and result.errors is non-empty; with throwOnError false or omitted it
\* never throws; whenever it does not throw and there are warnings it reports
\* them.
C20_ThrowsIffAskedAndErrors ==
  Returns("handleValidationResult") =>
    /\ call.res.threw <=> (ThrowOnErrorOf(call.args) /\ Len(last.errors) > 0)
    /\ ~ThrowOnErrorOf(call.args) => ~call.res.threw
    /\ (~call.res.threw /\ Len(last.warnings) > 0) =>
         call.res.warnLog = WarnMark \o warningMessage(getResult(last))

\* Errors and a warning, throwOnError omitted: both are written, none thrown.
C20_Witness ==
  /\ Returns("handleValidationResult")
  /\ call.args = <<>>
  /\ Len(last.errors) = 2 /\ Len(last.warnings) = 1
  /\ ~call.res.threw
  /\ call.res.errorLog # ""
  /\ call.res.warnLog # ""

C20_WitnessThrows ==
  /\ Returns("handleValidationResult")
  /\ call.args = <<TRUE>>
  /\ Len(last.errors) > 0 /\ Len(last.warnings) > 0
  /\ call.res.threw
  /\ call.res.warnLog = ""

(***************************************************************************)
(* Theme utilities (theme.ts).  `last` is one page in a browser:           *)
(*   dark       document.documentElement.classList contains 'dark'         *)
(*   stored     localStorage.getItem('theme'), NoItem for null             *)
(*   system     what prefers-color-scheme matches                          *)
(*   available  typeof localStorage !== 'undefined'                        *)
(*   log        the calls of initializeTheme and toggleTheme made so far,  *)
(*              each with the class, the item and the preference it found  *)
(*              and the class and the item it left                         *)
(*              (history only)                                             *)
(***************************************************************************)
NoItem == "(null)"

\* What the item 'theme' may hold when the page loads: nothing, a theme, the
\* empty string, or a string that is no theme.
StoredItems == {NoItem, "light", "dark", "system", "", "blue"}

getStoredTheme(p) == IF ~p.available THEN NoItem ELSE p.stored

setStoredTheme(p, theme) == IF ~p.available THEN p ELSE [p EXCEPT !.stored = theme]

getSystemTheme(p) == IF p.system = "dark" THEN "dark" ELSE "light"

\* html.classList.toggle('dark', force)
applyTheme(p, theme) ==
  IF theme = "system" THEN [p EXCEPT !.dark = getSystemTheme(p) = "dark"]
  ELSE [p EXCEPT !.dark = theme = "dark"]

\* As initializeTheme, with the system preference applied whatever is stored.
initializeThemeFromSystem(p) == applyTheme(p, "system")

\* const theme = storedTheme || 'system': null and "" are falsy
initializeTheme(p) ==
  applyTheme(p, IF getStoredTheme(p) \in {NoItem, ""} THEN "system" ELSE getStoredTheme(p))

toggleTheme(p) ==
  With(IF p.dark THEN "light" ELSE "dark", LAMBDA newTheme :
    applyTheme(setStoredTheme(p, newTheme), newTheme))

ThemeLogged(before, after, op) ==
  [after EXCEPT !.log = Append(@, [op |-> op, darkBefore |-> before.dark,
                                   storedBefore |-> before.stored,
                                   system |-> before.system,
                                   dark |-> after.dark, stored |-> after.stored])]

InitTheme ==
  /\ last \in [dark : BOOLEAN, stored : StoredItems, system : {"light", "dark"},
               available : BOOLEAN, log : {<<>>}]
  /\ file = NoFile
  /\ fs = NoFS
  /\ edits = 0
  /\ call = NoCall
  /\ cli = NoCli

\* A page load runs initializeTheme().
InitializeTheme ==
  /\ Len(last.log) < MaxThemeCalls
  /\ last' = ThemeLogged(last, initializeTheme(last), "initializeTheme")
  /\ call' = [op |-> "initializeTheme"]
  /\ UNCHANGED <<file, fs, edits, cli>>

\* A click on the theme button runs toggleTheme().
ToggleTheme ==
  /\ Len(last.log) < MaxThemeCalls
  /\ last' = ThemeLogged(last, toggleTheme(last), "toggleTheme")
  /\ call' = [op |-> "toggleTheme"]
  /\ UNCHANGED <<file, fs, edits, cli>>

\* The user changes the colour scheme of the system.
ChangePreference ==
  /\ edits < MaxPreferenceChanges
  /\ last' = [last EXCEPT !.system = IF @ = "dark" THEN "light" ELSE "dark"]
  /\ edits' = edits + 1
  /\ UNCHANGED <<file, fs, call, cli>>

NextTheme == InitializeTheme \/ ToggleTheme \/ ChangePreference

SpecTheme == InitTheme /\ [][NextTheme]_vars

\* The positions of the toggleTheme calls in the log.
Toggles(log) == {i \in 1..Len(log) : log[i].op = "toggleTheme"}

LastToggle(log) == CHOOSE i \in Toggles(log) : \A j \in Toggles(log) : j <= i

\* C25: with localStorage available, after any sequence of initializeTheme
\* and toggleTheme calls: each toggleTheme inverts the 'dark' class, stores
\* 'dark' or 'light' and leaves the class equal to (stored theme = 'dark');
\* two consecutive toggleTheme calls restore the previous class; a later
\* initializeTheme applies the theme stored by the last toggleTheme whatever
\* the system preference; initializeTheme with nothing stored applies the
\* system preference.
C25_ToggleInvertsAndReloadKeepsTheme ==
  last.available =>
    /\ \A i \in Toggles(last.log) :
         /\ last.log[i].dark = ~last.log[i].darkBefore
         /\ last.log[i].stored \in {"dark", "light"}
         /\ last.log[i].dark <=> (last.log[i].stored = "dark")
         /\ (i > 1 /\ last.log[i - 1].op = "toggleTheme") =>
              last.log[i].dark = last.log[i - 1].darkBefore
    /\ \A i \in 1..Len(last.log) :
         last.log[i].op = "initializeTheme" =>
           /\ Toggles(SubSeq(last.log, 1, i - 1)) # {} =>
                /\ last.log[i].storedBefore =
                     last.log[LastToggle(SubSeq(last.log, 1, i - 1))].stored
                /\ last.log[i].dark <=> (last.log[i].storedBefore = "dark")
           /\ last.log[i].storedBefore = NoItem =>
                (last.log[i].dark <=> (last.log[i].system = "dark"))

\* toggle, toggle, reload: the page is light again and stays light on a
\* system that prefers dark.
C25_Witness ==
  /\ last.available
  /\ Len(last.log) = 3
  /\ last.log[1].op = "toggleTheme" /\ last.log[2].op = "toggleTheme"
  /\ last.log[3].op = "initializeTheme"
  /\ ~last.log[1].darkBefore
  /\ last.system = "dark" /\ edits = 0
  /\ ~last.dark /\ last.stored = "light"

C25_WitnessNothingStored ==
  /\ last.available
  /\ Len(last.log) = 1
  /\ last.log[1].op = "initializeTheme"
  /\ last.log[1].storedBefore = NoItem
  /\ last.system = "dark" /\ edits = 0
  /\ last.dark /\ ~last.log[1].darkBefore

====
